---- MODULE Spec2Model ----
(***************************************************************************)
(* Model of the document indexing / similarity search program:             *)
(*   utils/shared_utils.py   chunk_by_paragraphs, _embed_with_retry,       *)
(*                           generate_embeddings                           *)
(*   utils/db_utils.py       load_configuration, get_db_connection,        *)
(*                           ensure_database_schema, delete_document_data  *)
(*   index_documents.py      store_chunks_to_db, process_document          *)
(*   search_documents.py     _search_single_embedding,                     *)
(*                           _merge_search_results, similarity_search      *)
(*                                                                         *)
(* Text is a sequence of one-character strings.  A vector is a sequence of *)
(* integers; the vectors used all have an integral Euclidean norm, so that *)
(* SQRT and the division of the cosine score are exact.  A similarity      *)
(* score is the reduced fraction [n, d] with d > 0.                        *)
(***************************************************************************)
EXTENDS Integers, Sequences, FiniteSets, TLC

\* ------------------------------------------------------------------ bounds
\* Largest chunk list handed to generate_embeddings in SpecEmbed.
MaxChunks == 25
\* Largest value of the SERIAL id counter of the documents table.
MaxId == 6
\* Largest top_k and longest list of query vectors in SpecSearch.
MaxTopK == 3
MaxQueries == 2
\* longest text given to the chunker
MaxText == 6

\* ------------------------------------------------------- program constants
BATCH_SIZE == 10
max_retries == 3
PauseMs == 100

\* ------------------------------------------------------------------- text
IsSpace(c) == c \in {" ", "\n", "\t"}

RECURSIVE LStrip(_)
LStrip(s) ==
    IF s = <<>> THEN s
    ELSE IF IsSpace(Head(s)) THEN LStrip(Tail(s)) ELSE s

RECURSIVE RStrip(_)
RStrip(s) ==
    IF s = <<>> THEN s
    ELSE IF IsSpace(s[Len(s)]) THEN RStrip(SubSeq(s, 1, Len(s) - 1)) ELSE s

\* str.strip()
Strip(s) == RStrip(LStrip(s))

\* text.split('\n\n'): left to right, non-overlapping; cur is the piece
\* being collected.
RECURSIVE SplitParagraphs(_, _)
SplitParagraphs(text, cur) ==
    IF text = <<>> THEN <<cur>>
    ELSE IF Len(text) >= 2 /\ text[1] = "\n" /\ text[2] = "\n"
         THEN <<cur>> \o SplitParagraphs(SubSeq(text, 3, Len(text)), <<>>)
         ELSE SplitParagraphs(Tail(text), Append(cur, Head(text)))

RECURSIVE StripNonEmpty(_)
StripNonEmpty(pieces) ==
    IF pieces = <<>> THEN <<>>
    ELSE IF Strip(Head(pieces)) # <<>>
         THEN <<Strip(Head(pieces))>> \o StripNonEmpty(Tail(pieces))
         ELSE StripNonEmpty(Tail(pieces))

\* A check that rejects only the empty text.
EmptyOnly(text) == text = <<>>

\* chunk_by_paragraphs raises ValueError on these texts.
ChunkInputInvalid(text) == text = <<>> \/ Strip(text) = <<>>

\* A chunker that keeps the pieces as split, without stripping them.
chunkUnstripped(text) ==
    SelectSeq(SplitParagraphs(text, <<>>), LAMBDA piece : Strip(piece) # <<>>)

\* A chunker that loses the last paragraph.
chunkDropsLast(text) ==
    LET all == StripNonEmpty(SplitParagraphs(text, <<>>))
    IN  SubSeq(all, 1, Len(all) - 1)

\* chunk_by_paragraphs on a text it accepts.
chunk_by_paragraphs(text) == StripNonEmpty(SplitParagraphs(text, <<>>))

\* ---------------------------------------------------------------- vectors
RECURSIVE SumSeq(_)
SumSeq(s) == IF s = <<>> THEN 0 ELSE Head(s) + SumSeq(Tail(s))

Min(a, b) == IF a <= b THEN a ELSE b

\* SQL function dot_product: the join on the ordinality keeps the common
\* indices of the two arrays.
dot_product(a, b) ==
    SumSeq([i \in 1..Min(Len(a), Len(b)) |-> a[i] * b[i]])

ISqrt(n) == CHOOSE r \in 0..n : r * r <= n /\ (r + 1) * (r + 1) > n

\* SQL function vector_norm, and np.linalg.norm of the query vector.
vector_norm(a) == ISqrt(SumSeq([i \in 1..Len(a) |-> a[i] * a[i]]))

Abs(x) == IF x < 0 THEN -x ELSE x

RECURSIVE GCD(_, _)
GCD(a, b) == IF b = 0 THEN a ELSE GCD(b, a % b)

\* The value num / den (den > 0) as a reduced fraction.
Fraction(num, den) ==
    LET g == GCD(Abs(num), den)
    IN  [n |-> num \div g, d |-> den \div g]

\* s > t on fractions with positive denominators.
ScoreGreater(s, t) == s.n * t.d > t.n * s.d

\* ------------------------------------------------- remote embedding service
\* The vector the remote model gives for one string.
EmbedOf(chunk) ==
    CASE Head(chunk) = "a" -> <<1, 0>>
      [] Head(chunk) = "b" -> <<4, 3>>
      [] Head(chunk) = "c" -> <<0, 1>>
      [] OTHER -> <<0, 0>>

\* genai.embed_content(model, content)['embedding'] for a list of strings:
\* one vector per string, in the order of the list.
RemoteEmbed(batch) == [i \in 1..Len(batch) |-> EmbedOf(batch[i])]

\* ------------------------------------------------------------ batching
\* batch_end = min(batch_start + BATCH_SIZE, len(chunks))
BatchEnd(chunks, batch_start) == Min(batch_start + BATCH_SIZE, Len(chunks))

\* A slice that loses the last chunk of every batch.
BatchShort(chunks, batch_start) ==
    SubSeq(chunks, batch_start + 1, BatchEnd(chunks, batch_start) - 1)

\* batch = chunks[batch_start:batch_end]   (batch_start counts from 0)
Batch(chunks, batch_start) ==
    SubSeq(chunks, batch_start + 1, BatchEnd(chunks, batch_start))

\* wait_time = 2 ** attempt, in milliseconds
RECURSIVE Pow2(_)
Pow2(k) == IF k = 0 THEN 1 ELSE 2 * Pow2(k - 1)

\* A backoff that starts one power too high: 2 ** (attempt + 1).
WaitMsLate(attempt) == 1000 * Pow2(attempt + 1)

WaitMs(attempt) == 1000 * Pow2(attempt)

\* The value generate_embeddings returns when every batch succeeds: the
\* loop over range(0, len(chunks), BATCH_SIZE) with embeddings.extend.
RECURSIVE EmbedFrom(_, _)
EmbedFrom(chunks, batch_start) ==
    IF batch_start >= Len(chunks) THEN <<>>
    ELSE RemoteEmbed(Batch(chunks, batch_start))
            \o EmbedFrom(chunks, batch_start + BATCH_SIZE)

\* ------------------------------------------------------------------ state
VARIABLES
    \* the database
    tableExists,    \* the documents table (and the two SQL functions) exist
    store,          \* committed rows of documents, in storage order
    nextId,         \* next value of the SERIAL column id
    openConns,      \* connections opened and not yet closed
    work,           \* rows as seen inside the open write transaction
    \* process-wide configuration
    env,            \* the three environment values ("" = not set)
    config,         \* db_utils._config
    \* process_document / delete_document_data / store_chunks_to_db
    pc,             \* position in process_document
    spc,            \* position in the store operation in progress
    caller,         \* who called the store operation: "pd" or "direct"
    file,           \* file_path of process_document
    text, chunks, embeddings,   \* locals of process_document
    result,         \* what process_document returned
    sOp,            \* store operation in progress: "delete", "store" or "none"
    sFile, sChunks, sEmb,       \* arguments of the store operation
    sRet,           \* what the store operation returned
    sRows,          \* rowcount reported by the DELETE statement
    sFirstId,       \* id given to the first row of the INSERT
    faulted,        \* the database failed on its own during this operation
    opPre,          \* rows committed when the store operation started
    sNames,         \* the list get_indexed_filenames returned
    steps,          \* steps of the pipeline started in this run, in order
    stepOk,         \* for each started step that has ended, whether it succeeded
    pre,            \* rows committed when the top-level call started
    preTable,       \* the documents table existed when the call started
    last,           \* the preceding top-level call, when it was a successful
                    \* process_document: its file and the rows it wrote
    \* generate_embeddings / _embed_with_retry
    gPc, gChunks, gBatchStart, gAttempt, gEmbeddings,
    gRet,           \* the list generate_embeddings returned
    gOut,           \* how generate_embeddings ended
    gLog,           \* remote calls and sleeps of the whole call, in order
    bLog,           \* remote calls and sleeps of the current _embed_with_retry
    bRet,           \* what the current _embed_with_retry returned
    \* similarity_search
    qPc, qEmb, topK, qIdx, allResults, finalResults, seenChunks,
    roundIdx, searchIdx,
    qOut,           \* how similarity_search ended
    queriesIssued,  \* similarity queries executed by the store in this call
    visited,        \* entries of allResults the merge has looked at
    qSeen,          \* rows each SELECT of the search read, in order
    \* text extraction and chunk_by_paragraphs
    cPc,
    cKind,          \* "pdf": the text goes through _extract_pdf_text
    cRaw,           \* the text as extracted or typed
    cText,          \* the text given to chunk_by_paragraphs
    cChunks,        \* what chunk_by_paragraphs returned
    cOut,           \* how chunk_by_paragraphs ended
    cPassed,        \* the lists given to generate_embeddings
    cJoined,        \* the returned chunks joined by a blank line
    cAgain,         \* what chunk_by_paragraphs returned for cJoined
    cAgainOut,      \* how that second call ended
    \* _handle_process_folder
    fPc,
    fFolder,        \* the files in the folder
    fFiles,         \* files_to_process
    fIdx,           \* files of files_to_process the loop has taken
    fCalls,         \* file paths given to process_document, in order
    fResults,       \* what process_document returned for them
    \* load_configuration, called alone
    lcPc,
    lcBefore,       \* _config when the call started
    lcRead,         \* the call read the environment
    lcOut,          \* how the call ended
    lcRet           \* the dictionary it returned

dbVars == <<tableExists, store, nextId, openConns, work>>
cfgVars == <<env, config>>
pdLocals == <<file, text, chunks, embeddings, result>>
sArgs == <<sOp, sFile, sChunks, sEmb>>
sLocals == <<sRet, sRows, sFirstId, faulted, opPre>>
pdTrace == <<steps, stepOk, pre, preTable, last>>
ixVars == <<pc, spc, caller, pdLocals, sArgs, sLocals, sNames, pdTrace>>
genVars == <<gPc, gChunks, gBatchStart, gAttempt, gEmbeddings, gRet, gOut,
             gLog, bLog, bRet>>
srVars == <<qPc, qEmb, topK, qIdx, allResults, finalResults, seenChunks,
            roundIdx, searchIdx, qOut, queriesIssued, visited, qSeen>>
ckVars == <<cPc, cKind, cRaw, cText, cChunks, cOut, cPassed, cJoined, cAgain,
           cAgainOut>>
fdVars == <<fPc, fFolder, fFiles, fIdx, fCalls, fResults>>
lcVars == <<lcPc, lcBefore, lcRead, lcOut, lcRet>>
vars == <<dbVars, cfgVars, ixVars, genVars, srVars, ckVars, fdVars, lcVars>>

\* ---------------------------------------------------------- configuration
NoConfig == [api_key |-> "", postgres_url |-> "", embedding_model |-> ""]

FullEnv == [api_key |-> "k", embedding_model |-> "e", postgres_url |-> "u"]

EnvSet == [api_key : {"", "k"},
           embedding_model : {"", "e", "models/e"},
           postgres_url : {"", "u"}]

\* load_configuration raises ConfigurationError: nothing is cached and one
\* of the three values is not set.
ConfigMissing(cached, e) ==
    /\ cached = NoConfig
    /\ (e.api_key = "" \/ e.embedding_model = "" \/ e.postgres_url = "")

\* A load_configuration that reads the environment on every call.
load_uncached(cached, e) ==
    [api_key |-> e.api_key,
     postgres_url |-> e.postgres_url,
     embedding_model |->
         IF e.embedding_model = "" THEN "" ELSE "models/e"]

\* The dictionary load_configuration returns (and caches) otherwise.
load_configuration(cached, e) ==
    IF cached # NoConfig THEN cached
    ELSE [api_key |-> e.api_key,
          postgres_url |-> e.postgres_url,
          embedding_model |->
              IF e.embedding_model = "models/e" THEN e.embedding_model
              ELSE "models/e"]

\* ------------------------------------------ generate_embeddings, stepwise
CallEvent(ok) == [e |-> IF ok THEN "call_ok" ELSE "call_fail", ms |-> 0]
SleepEvent(ms) == [e |-> "sleep", ms |-> ms]

\* A list of n one-character chunks, cycling through a, b, c from offset off.
ChunkList(n, off) ==
    [i \in 1..n |-> << <<"a", "b", "c">>[((i + off) % 3) + 1] >>]

GenIdle ==
    /\ gPc = "idle" /\ gChunks = <<>> /\ gBatchStart = 0 /\ gAttempt = 0
    /\ gEmbeddings = <<>> /\ gRet = <<>> /\ gOut = "none"
    /\ gLog = <<>> /\ bLog = <<>> /\ bRet = <<>>

\* generate_embeddings(chunks) is called: the empty list raises ValueError.
GenCall ==
    /\ gPc = "idle"
    /\ \E n \in 0..MaxChunks, off \in 0..2 :
          /\ gChunks' = ChunkList(n, off)
          /\ IF n = 0
             THEN gPc' = "done" /\ gOut' = "ValueError"
             ELSE gPc' = "config" /\ gOut' = gOut
    /\ UNCHANGED <<gBatchStart, gAttempt, gEmbeddings, gRet, gLog, bLog, bRet>>
    /\ UNCHANGED <<dbVars, cfgVars, ixVars, srVars, ckVars, fdVars, lcVars>>

\* The try block around load_configuration and genai.configure.
GenConfig ==
    /\ gPc = "config"
    /\ IF ConfigMissing(config, env)
       THEN /\ gPc' = "done" /\ gOut' = "EmbeddingGenerationError"
            /\ UNCHANGED config
       ELSE /\ config' = load_configuration(config, env)
            /\ gPc' = "attempt" /\ gOut' = gOut
    /\ UNCHANGED <<gChunks, gBatchStart, gAttempt, gEmbeddings, gRet, gLog, bLog, bRet>>
    /\ UNCHANGED <<env, dbVars, ixVars, srVars, ckVars, fdVars, lcVars>>

\* One attempt of _embed_with_retry on the current batch succeeds:
\* _embed_with_retry returns what the remote call returned.
GenAttemptOk ==
    /\ gPc = "attempt"
    /\ bRet' = RemoteEmbed(Batch(gChunks, gBatchStart))
    /\ gLog' = Append(gLog, CallEvent(TRUE))
    /\ bLog' = Append(bLog, CallEvent(TRUE))
    /\ gPc' = "extend"
    /\ UNCHANGED <<gChunks, gBatchStart, gAttempt, gEmbeddings, gRet, gOut>>
    /\ UNCHANGED <<dbVars, cfgVars, ixVars, srVars, ckVars, fdVars, lcVars>>

\* embeddings.extend(batch_result['embedding']); then the pause and the
\* next batch (a new call of _embed_with_retry), or the return.
GenExtend ==
    /\ gPc = "extend"
    /\ LET batch_end == BatchEnd(gChunks, gBatchStart)
           got == gEmbeddings \o bRet
       IN  /\ gEmbeddings' = got
           /\ IF batch_end < Len(gChunks)
              THEN /\ gLog' = Append(gLog, SleepEvent(PauseMs))
                   /\ gBatchStart' = gBatchStart + BATCH_SIZE
                   /\ gAttempt' = 0
                   /\ bLog' = <<>>
                   /\ bRet' = <<>>
                   /\ gPc' = "attempt"
                   /\ UNCHANGED <<gRet, gOut>>
              ELSE /\ gPc' = "done" /\ gOut' = "ok" /\ gRet' = got
                   /\ UNCHANGED <<gBatchStart, gAttempt, gLog, bLog, bRet>>
    /\ UNCHANGED gChunks
    /\ UNCHANGED <<dbVars, cfgVars, ixVars, srVars, ckVars, fdVars, lcVars>>

\* A retry loop whose last failure is swallowed: the batch is left out and
\* the loop goes on with the next one.
GenAttemptFailSkips ==
    /\ gPc = "attempt"
    /\ IF gAttempt = max_retries - 1
       THEN /\ gLog' = Append(gLog, CallEvent(FALSE))
            /\ IF BatchEnd(gChunks, gBatchStart) < Len(gChunks)
               THEN /\ gBatchStart' = gBatchStart + BATCH_SIZE
                    /\ gAttempt' = 0 /\ bLog' = <<>>
                    /\ UNCHANGED <<gPc, gOut>>
               ELSE /\ bLog' = Append(bLog, CallEvent(FALSE))
                    /\ gPc' = "done" /\ gOut' = "EmbeddingGenerationError"
                    /\ UNCHANGED <<gAttempt, gBatchStart>>
       ELSE /\ gLog' = gLog \o <<CallEvent(FALSE), SleepEvent(WaitMs(gAttempt))>>
            /\ bLog' = bLog \o <<CallEvent(FALSE), SleepEvent(WaitMs(gAttempt))>>
            /\ gAttempt' = gAttempt + 1
            /\ UNCHANGED <<gPc, gOut, gBatchStart>>
    /\ UNCHANGED <<gChunks, gEmbeddings, gRet, bRet>>
    /\ UNCHANGED <<dbVars, cfgVars, ixVars, srVars, ckVars, fdVars, lcVars>>

\* One attempt fails: the last one raises EmbeddingGenerationError, which
\* generate_embeddings wraps and raises again; an earlier one sleeps
\* 2 ** attempt seconds and goes round the loop.
GenAttemptFail ==
    /\ gPc = "attempt"
    /\ IF gAttempt = max_retries - 1
       THEN /\ gLog' = Append(gLog, CallEvent(FALSE))
            /\ bLog' = Append(bLog, CallEvent(FALSE))
            /\ gPc' = "done" /\ gOut' = "EmbeddingGenerationError"
            /\ UNCHANGED gAttempt
       ELSE /\ gLog' = gLog \o <<CallEvent(FALSE), SleepEvent(WaitMs(gAttempt))>>
            /\ bLog' = bLog \o <<CallEvent(FALSE), SleepEvent(WaitMs(gAttempt))>>
            /\ gAttempt' = gAttempt + 1
            /\ UNCHANGED <<gPc, gOut>>
    /\ UNCHANGED <<gChunks, gBatchStart, gEmbeddings, gRet, bRet>>
    /\ UNCHANGED <<dbVars, cfgVars, ixVars, srVars, ckVars, fdVars, lcVars>>

\* ------------------------------------------------------------ the database
Files == {"f1", "f2"}

\* The default of the parameter filename of delete_document_data.
None == "None"

\* `if filename:` holds for a string that is not empty.
Truthy(filename) == filename \notin {"", None}

\* load_document raises ValueError unless the suffix of file_path is .pdf
\* or .docx; the paths of Files have one, the empty path has none.
SupportedPath(file_path) == file_path \in Files

\* Texts load_document can return: it raises on empty and blank text.
DocTexts == { <<"z">>,
              <<"a", "\n", "\n", "b">>,
              <<"c", "\n", "\n", "\n", "b">>,
              <<"a", " ", "\n", "\n", "a">> }

\* An INSERT that writes the same norm for every row.
RowUnitNorm(id, filename, chunk, split_strategy, embedding) ==
    [id |-> id, filename |-> filename, chunk_text |-> chunk,
     split_strategy |-> split_strategy, embedding |-> embedding,
     embedding_norm |-> 1]

\* One row of documents as the INSERT template writes it: the norm is
\* vector_norm of the same array that is stored as embedding.
Row(id, filename, chunk, split_strategy, embedding) ==
    [id |-> id, filename |-> filename, chunk_text |-> chunk,
     split_strategy |-> split_strategy, embedding |-> embedding,
     embedding_norm |-> vector_norm(embedding)]

\* data_to_insert: one tuple per pair of zip(chunks, embeddings); the ids
\* come from the sequence, starting at firstId.
RowsFor(filename, cs, es, firstId) ==
    [i \in 1..Min(Len(cs), Len(es)) |->
        Row(firstId + i - 1, filename, cs[i], "paragraph", es[i])]

RowsOf(rows, filename) == SelectSeq(rows, LAMBDA r : r.filename = filename)

\* A DELETE with the condition inverted: WHERE filename <> %s.
RowsWithoutOthers(rows, filename) == SelectSeq(rows, LAMBDA r : r.filename = filename)

\* A DELETE whose condition matches no row.
RowsWithoutNone(rows, filename) == rows

\* DELETE FROM documents WHERE filename = %s
RowsWithout(rows, filename) == SelectSeq(rows, LAMBDA r : r.filename # filename)

\* A finally block that leaves the connection open.
closeNever(conns) == conns

\* finally: if connection: connection.close()
close(conns) == conns - 1

NoTxn == [active |-> FALSE, rows |-> <<>>, restart |-> FALSE]

NoRun == [file |-> "", rows |-> <<>>]

\* The filenames for which filename.strip() is empty.
BlankNames == {"", " "}

\* A validation without the comparison of the two lengths.
ValidationSkipsCount(cs, es, filename) ==
    \/ cs = <<>>
    \/ es = <<>>
    \/ filename \in BlankNames

\* _validate_data_for_indexing raises ValueError.
ValidationFails(cs, es, filename) ==
    \/ cs = <<>>
    \/ es = <<>>
    \/ Len(cs) # Len(es)
    \/ filename \in BlankNames

\* What the database holds after connection.commit() of the transaction.
Committed(rows, txn) == txn.rows

\* A failure path that commits what the transaction holds.
RolledBackKeeps(rows, txn) == txn.rows

\* What it holds after connection.rollback().
RolledBack(rows, txn) == rows

\* ------------------------------------------------ delete_document_data
\* get_db_connection: the configuration is loaded (and cached), then
\* psycopg2.connect is called.  Either can fail; both failures reach the
\* caller as DatabaseError with no connection open.
ConnectOk ==
    /\ ~ConfigMissing(config, env)
    /\ config' = load_configuration(config, env)
    /\ openConns' = openConns + 1
    /\ work' = [active |-> TRUE, rows |-> store, restart |-> FALSE]

ConnectFails ==
    /\ IF ConfigMissing(config, env)
       THEN UNCHANGED <<config, faulted>>
       ELSE config' = load_configuration(config, env) /\ faulted' = TRUE
    /\ UNCHANGED <<openConns, work>>
    /\ sRet' = FALSE
    /\ spc' = "ret"

DelConnect ==
    /\ spc = "del_connect"
    /\ \/ ConnectOk /\ spc' = "del_exec" /\ UNCHANGED <<sRet, faulted>>
       \/ ConnectFails
    /\ UNCHANGED <<tableExists, store, nextId, env>>
    /\ UNCHANGED <<pc, caller, pdLocals, sArgs, sRows, sFirstId, opPre, pdTrace>>
    /\ UNCHANGED <<sNames, genVars, srVars, ckVars, fdVars, lcVars>>

\* The DELETE (a filename is given) or the TRUNCATE ... RESTART IDENTITY
\* (filename is None or the empty string).  Without the table the statement
\* fails.
DelExec ==
    /\ spc = "del_exec"
    /\ \/ /\ tableExists
          /\ IF Truthy(sFile)
             THEN /\ work' = [work EXCEPT !.rows = RowsWithout(store, sFile)]
                  /\ sRows' = Len(RowsOf(store, sFile))
             ELSE /\ work' = [work EXCEPT !.rows = <<>>, !.restart = TRUE]
                  /\ sRows' = sRows
          /\ spc' = "del_commit"
          /\ UNCHANGED faulted
       \/ /\ ~tableExists
          /\ spc' = "del_rollback"
          /\ UNCHANGED <<work, sRows, faulted>>
       \/ /\ tableExists
          /\ faulted' = TRUE
          /\ spc' = "del_rollback"
          /\ UNCHANGED <<work, sRows>>
    /\ UNCHANGED <<tableExists, store, nextId, openConns, cfgVars>>
    /\ UNCHANGED <<pc, caller, pdLocals, sArgs, sRet, sFirstId, opPre, pdTrace>>
    /\ UNCHANGED <<sNames, genVars, srVars, ckVars, fdVars, lcVars>>

\* connection.commit(), then return True
DelCommit ==
    /\ spc = "del_commit"
    /\ \/ /\ store' = Committed(store, work)
          /\ nextId' = IF work.restart THEN 1 ELSE nextId
          /\ work' = [work EXCEPT !.restart = FALSE]
          /\ sRet' = TRUE
          /\ spc' = "del_close"
          /\ UNCHANGED faulted
       \/ /\ faulted' = TRUE
          /\ spc' = "del_rollback"
          /\ UNCHANGED <<store, nextId, work, sRet>>
    /\ UNCHANGED <<tableExists, openConns, cfgVars>>
    /\ UNCHANGED <<pc, caller, pdLocals, sArgs, sRows, sFirstId, opPre, pdTrace>>
    /\ UNCHANGED <<sNames, genVars, srVars, ckVars, fdVars, lcVars>>

\* except: connection.rollback(), return False
DelRollback ==
    /\ spc = "del_rollback"
    /\ work' = [active |-> TRUE, rows |-> store, restart |-> FALSE]
    /\ sRet' = FALSE
    /\ spc' = "del_close"
    /\ UNCHANGED <<tableExists, store, nextId, openConns, cfgVars>>
    /\ UNCHANGED <<pc, caller, pdLocals, sArgs, sRows, sFirstId, faulted, opPre, pdTrace>>
    /\ UNCHANGED <<sNames, genVars, srVars, ckVars, fdVars, lcVars>>

\* finally: connection.close()
DelClose ==
    /\ spc = "del_close"
    /\ openConns' = close(openConns)
    /\ work' = NoTxn
    /\ spc' = "ret"
    /\ UNCHANGED <<tableExists, store, nextId, cfgVars>>
    /\ UNCHANGED <<pc, caller, pdLocals, sArgs, sLocals, pdTrace>>
    /\ UNCHANGED <<sNames, genVars, srVars, ckVars, fdVars, lcVars>>

\* -------------------------------------------------- store_chunks_to_db
\* _validate_data_for_indexing; on ValueError the function returns False
\* before any connection is opened.
StValidate ==
    /\ spc = "st_validate"
    /\ IF ValidationFails(sChunks, sEmb, sFile)
       THEN sRet' = FALSE /\ spc' = "ret"
       ELSE sRet' = sRet /\ spc' = "st_connect"
    /\ UNCHANGED <<dbVars, cfgVars>>
    /\ UNCHANGED <<pc, caller, pdLocals, sArgs, sRows, sFirstId, faulted, opPre, pdTrace>>
    /\ UNCHANGED <<sNames, genVars, srVars, ckVars, fdVars, lcVars>>

StConnect ==
    /\ spc = "st_connect"
    /\ \/ ConnectOk /\ spc' = "st_schema" /\ UNCHANGED <<sRet, faulted>>
       \/ ConnectFails
    /\ UNCHANGED <<tableExists, store, nextId, env>>
    /\ UNCHANGED <<pc, caller, pdLocals, sArgs, sRows, sFirstId, opPre, pdTrace>>
    /\ UNCHANGED <<sNames, genVars, srVars, ckVars, fdVars, lcVars>>

\* ensure_database_schema(connection): CREATE TABLE IF NOT EXISTS, the two
\* functions, commit; on failure it rolls back and raises DatabaseError.
StSchema ==
    /\ spc = "st_schema"
    /\ \/ /\ tableExists' = TRUE
          /\ spc' = "st_exec"
          /\ UNCHANGED faulted
       \/ /\ faulted' = TRUE
          /\ spc' = "st_rollback"
          /\ UNCHANGED tableExists
    /\ UNCHANGED <<store, nextId, openConns, work, cfgVars>>
    /\ UNCHANGED <<pc, caller, pdLocals, sArgs, sRet, sRows, sFirstId, opPre, pdTrace>>
    /\ UNCHANGED <<sNames, genVars, srVars, ckVars, fdVars, lcVars>>

\* execute_values(INSERT ...): every row of data_to_insert is inserted in
\* the open transaction; the sequence hands out the ids.  When a statement
\* fails, the rows of the pages before it (j of them) are in the
\* transaction and their ids are used up.
StExec ==
    /\ spc = "st_exec"
    /\ LET rows == RowsFor(sFile, sChunks, sEmb, nextId)
       IN  \/ /\ work' = [work EXCEPT !.rows = store \o rows]
              /\ nextId' = nextId + Len(rows)
              /\ sFirstId' = nextId
              /\ spc' = "st_commit"
              /\ UNCHANGED faulted
           \/ \E j \in 0..(Len(rows) - 1) :
              /\ work' = [work EXCEPT !.rows = store \o SubSeq(rows, 1, j)]
              /\ nextId' = nextId + j
              /\ sFirstId' = nextId
              /\ faulted' = TRUE
              /\ spc' = "st_rollback"
    /\ UNCHANGED <<tableExists, store, openConns, cfgVars>>
    /\ UNCHANGED <<pc, caller, pdLocals, sArgs, sRet, sRows, opPre, pdTrace>>
    /\ UNCHANGED <<sNames, genVars, srVars, ckVars, fdVars, lcVars>>

\* connection.commit(), then return True
StCommit ==
    /\ spc = "st_commit"
    /\ \/ /\ store' = Committed(store, work)
          /\ sRet' = TRUE
          /\ spc' = "st_close"
          /\ UNCHANGED faulted
       \/ /\ faulted' = TRUE
          /\ spc' = "st_rollback"
          /\ UNCHANGED <<store, sRet>>
    /\ UNCHANGED <<tableExists, nextId, openConns, work, cfgVars>>
    /\ UNCHANGED <<pc, caller, pdLocals, sArgs, sRows, sFirstId, opPre, pdTrace>>
    /\ UNCHANGED <<sNames, genVars, srVars, ckVars, fdVars, lcVars>>

\* except: connection.rollback(), return False
StRollback ==
    /\ spc = "st_rollback"
    /\ store' = RolledBack(store, work)
    /\ work' = [active |-> TRUE, rows |-> store', restart |-> FALSE]
    /\ sRet' = FALSE
    /\ spc' = "st_close"
    /\ UNCHANGED <<tableExists, nextId, openConns, cfgVars>>
    /\ UNCHANGED <<pc, caller, pdLocals, sArgs, sRows, sFirstId, faulted, opPre, pdTrace>>
    /\ UNCHANGED <<sNames, genVars, srVars, ckVars, fdVars, lcVars>>

\* finally: cursor.close(), connection.close()
StClose ==
    /\ spc = "st_close"
    /\ openConns' = close(openConns)
    /\ work' = NoTxn
    /\ spc' = "ret"
    /\ UNCHANGED <<tableExists, store, nextId, cfgVars>>
    /\ UNCHANGED <<pc, caller, pdLocals, sArgs, sLocals, pdTrace>>
    /\ UNCHANGED <<sNames, genVars, srVars, ckVars, fdVars, lcVars>>

\* ---------------------------------------------------- process_document
PipelineOrder == <<"delete", "load", "chunk", "embed", "store">>

\* A pipeline that goes on whatever the delete step returned.
DeleteAbortsNever(deleted) == FALSE

\* if not delete_document_data(filename=file_path): return False
DeleteAborts(deleted) == ~deleted

IxIdle ==
    /\ pc = "idle" /\ spc = "none" /\ caller = "none"
    /\ file = "" /\ text = <<>> /\ chunks = <<>> /\ embeddings = <<>>
    /\ result = FALSE
    /\ sOp = "none" /\ sFile = "" /\ sChunks = <<>> /\ sEmb = <<>>
    /\ sRet = FALSE /\ sRows = 0 /\ sFirstId = 0 /\ faulted = FALSE
    /\ opPre = <<>> /\ sNames = <<>>
    /\ steps = <<>> /\ stepOk = <<>> /\ pre = <<>> /\ preTable = FALSE

\* The locals of a call are gone when it has returned.
IxReset ==
    /\ pc' = "idle" /\ spc' = "none" /\ caller' = "none"
    /\ file' = "" /\ text' = <<>> /\ chunks' = <<>> /\ embeddings' = <<>>
    /\ result' = FALSE
    /\ sOp' = "none" /\ sFile' = "" /\ sChunks' = <<>> /\ sEmb' = <<>>
    /\ sRet' = FALSE /\ sRows' = 0 /\ sFirstId' = 0 /\ faulted' = FALSE
    /\ opPre' = <<>> /\ sNames' = <<>>
    /\ steps' = <<>> /\ stepOk' = <<>> /\ pre' = <<>> /\ preTable' = FALSE

\* process_document(file_path) is called, with the path of a document or
\* with the empty path.
PdCall ==
    /\ pc = "idle" /\ spc = "none" /\ qPc = "idle"
    /\ nextId + 1 <= MaxId
    /\ \E f \in Files \cup {""} : file' = f
    /\ pc' = "delete"
    /\ pre' = store /\ preTable' = tableExists
    /\ UNCHANGED <<dbVars, cfgVars>>
    /\ UNCHANGED <<spc, caller, text, chunks, embeddings, result, sArgs, sLocals,
                   steps, stepOk, last>>
    /\ UNCHANGED <<sNames, genVars, srVars, ckVars, fdVars, lcVars>>

\* Step 1: delete_document_data(filename=file_path) is called.
PdDelete ==
    /\ pc = "delete" /\ spc = "none"
    /\ steps' = Append(steps, "delete")
    /\ caller' = "pd" /\ sOp' = "delete" /\ sFile' = file
    /\ opPre' = store
    /\ spc' = "del_connect"
    /\ UNCHANGED <<dbVars, cfgVars>>
    /\ UNCHANGED <<pc, pdLocals, sChunks, sEmb, sRet, sRows, sFirstId, faulted,
                   stepOk, pre, preTable, last>>
    /\ UNCHANGED <<sNames, genVars, srVars, ckVars, fdVars, lcVars>>

\* delete_document_data has returned: False aborts the run.
PdAfterDelete ==
    /\ pc = "delete" /\ spc = "ret"
    /\ stepOk' = Append(stepOk, sRet)
    /\ spc' = "none"
    /\ IF DeleteAborts(sRet)
       THEN pc' = "done" /\ result' = FALSE
       ELSE pc' = "load" /\ result' = result
    /\ UNCHANGED <<dbVars, cfgVars>>
    /\ UNCHANGED <<caller, file, text, chunks, embeddings, sArgs, sLocals,
                   steps, pre, preTable, last>>
    /\ UNCHANGED <<sNames, genVars, srVars, ckVars, fdVars, lcVars>>

\* Step 2: load_document(file_path) returns the text of the file, which is
\* not blank, or raises (unsupported suffix, missing file, unreadable or
\* empty file).
PdLoad ==
    /\ pc = "load"
    /\ steps' = Append(steps, "load")
    /\ \/ /\ SupportedPath(file)
          /\ \E t \in DocTexts : text' = t
          /\ stepOk' = Append(stepOk, TRUE)
          /\ pc' = "chunk"
          /\ UNCHANGED result
       \/ /\ stepOk' = Append(stepOk, FALSE)
          /\ pc' = "done" /\ result' = FALSE
          /\ UNCHANGED text
    /\ UNCHANGED <<dbVars, cfgVars>>
    /\ UNCHANGED <<spc, caller, file, chunks, embeddings, sArgs, sLocals, pre, preTable, last>>
    /\ UNCHANGED <<sNames, genVars, srVars, ckVars, fdVars, lcVars>>

\* Step 3: chunks = chunk_by_paragraphs(text); del text
PdChunk ==
    /\ pc = "chunk"
    /\ steps' = Append(steps, "chunk")
    /\ IF ChunkInputInvalid(text)
       THEN /\ stepOk' = Append(stepOk, FALSE)
            /\ pc' = "done" /\ result' = FALSE
            /\ UNCHANGED <<text, chunks>>
       ELSE /\ chunks' = chunk_by_paragraphs(text)
            /\ text' = <<>>
            /\ stepOk' = Append(stepOk, TRUE)
            /\ pc' = "embed"
            /\ UNCHANGED result
    /\ UNCHANGED <<dbVars, cfgVars>>
    /\ UNCHANGED <<spc, caller, file, embeddings, sArgs, sLocals, pre, preTable, last>>
    /\ UNCHANGED <<sNames, genVars, srVars, ckVars, fdVars, lcVars>>

\* Step 4: embeddings = generate_embeddings(chunks).  It raises on an empty
\* list, on missing configuration and when a batch has used up its retries.
PdEmbed ==
    /\ pc = "embed"
    /\ steps' = Append(steps, "embed")
    /\ \/ /\ chunks # <<>> /\ ~ConfigMissing(config, env)
          /\ config' = load_configuration(config, env)
          /\ embeddings' = EmbedFrom(chunks, 0)
          /\ stepOk' = Append(stepOk, TRUE)
          /\ pc' = "store"
          /\ UNCHANGED result
       \/ /\ config' = IF ConfigMissing(config, env) THEN config
                       ELSE load_configuration(config, env)
          /\ stepOk' = Append(stepOk, FALSE)
          /\ pc' = "done" /\ result' = FALSE
          /\ UNCHANGED embeddings
    /\ UNCHANGED <<dbVars, env>>
    /\ UNCHANGED <<spc, caller, file, text, chunks, sArgs, sLocals, pre, preTable, last>>
    /\ UNCHANGED <<sNames, genVars, srVars, ckVars, fdVars, lcVars>>

\* Step 5: store_chunks_to_db(chunks, embeddings, file_path) is called.
PdStore ==
    /\ pc = "store" /\ spc = "none"
    /\ steps' = Append(steps, "store")
    /\ caller' = "pd" /\ sOp' = "store"
    /\ sFile' = file /\ sChunks' = chunks /\ sEmb' = embeddings
    /\ opPre' = store
    /\ faulted' = FALSE
    /\ spc' = "st_validate"
    /\ UNCHANGED <<dbVars, cfgVars>>
    /\ UNCHANGED <<pc, pdLocals, sRet, sRows, sFirstId, stepOk, pre, preTable, last>>
    /\ UNCHANGED <<sNames, genVars, srVars, ckVars, fdVars, lcVars>>

\* store_chunks_to_db has returned: del chunks, embeddings; its value is
\* the value of process_document.
PdAfterStore ==
    /\ pc = "store" /\ spc = "ret"
    /\ stepOk' = Append(stepOk, sRet)
    /\ chunks' = <<>> /\ embeddings' = <<>>
    /\ result' = sRet
    /\ pc' = "done"
    /\ spc' = "none"
    /\ UNCHANGED <<dbVars, cfgVars>>
    /\ UNCHANGED <<caller, file, text, sArgs, sLocals, steps, pre, preTable, last>>
    /\ UNCHANGED <<sNames, genVars, srVars, ckVars, fdVars, lcVars>>

\* process_document returns.
PdReturn ==
    /\ pc = "done" /\ fPc = "idle"
    /\ last' = IF result
               THEN [file |-> file,
                     rows |-> RowsFor(sFile, sChunks, sEmb, sFirstId)]
               ELSE NoRun
    /\ IxReset
    /\ UNCHANGED <<dbVars, cfgVars>>
    /\ UNCHANGED <<genVars, srVars, ckVars, fdVars, lcVars>>

\* --------------------------------------- delete_document_data, called alone
\* delete_document_data is called with a filename, with the empty string
\* or without a filename (delete all).
DeleteCall ==
    /\ pc = "idle" /\ spc = "none" /\ qPc = "idle"
    /\ \E f \in Files \cup {"", None} : sFile' = f
    /\ caller' = "direct" /\ sOp' = "delete"
    /\ opPre' = store /\ pre' = store /\ preTable' = tableExists
    /\ spc' = "del_connect"
    /\ UNCHANGED <<dbVars, cfgVars>>
    /\ UNCHANGED <<pc, pdLocals, sChunks, sEmb, sRet, sRows, sFirstId, faulted,
                   steps, stepOk, last>>
    /\ UNCHANGED <<sNames, genVars, srVars, ckVars, fdVars, lcVars>>

DirectReturn ==
    /\ pc = "idle" /\ spc = "ret" /\ caller = "direct"
    /\ last' = NoRun
    /\ IxReset
    /\ UNCHANGED <<dbVars, cfgVars>>
    /\ UNCHANGED <<genVars, srVars, ckVars, fdVars, lcVars>>

\* ------------------------------------------ store_chunks_to_db, called alone
\* All sequences over S of length lo..hi.
SeqsOf(S, lo, hi) == UNION { [1..n -> S] : n \in lo..hi }

\* store_chunks_to_db(chunks, embeddings, filename) is called with lists
\* of up to two elements and a filename that may be empty or blank.
StoreCall ==
    /\ pc = "idle" /\ spc = "none" /\ qPc = "idle"
    /\ nextId + 1 <= MaxId
    /\ \E cs \in SeqsOf({<<"a">>}, 0, 2), es \in SeqsOf({<<1, 0>>}, 0, 2),
          f \in {"f1"} \cup BlankNames :
          sChunks' = cs /\ sEmb' = es /\ sFile' = f
    /\ caller' = "direct" /\ sOp' = "store"
    /\ opPre' = store /\ pre' = store /\ preTable' = tableExists
    /\ faulted' = FALSE
    /\ spc' = "st_validate"
    /\ UNCHANGED <<dbVars, cfgVars>>
    /\ UNCHANGED <<pc, pdLocals, sRet, sRows, sFirstId, steps, stepOk, last>>
    /\ UNCHANGED <<sNames, genVars, srVars, ckVars, fdVars, lcVars>>

\* ------------------------------------------------- get_indexed_filenames
\* The filenames in the order of ORDER BY filename.
FileOrder == <<"f1", "f2">>

\* SELECT DISTINCT filename FROM documents ORDER BY filename
DistinctFilenames(rows) ==
    SelectSeq(FileOrder, LAMBDA f : \E i \in 1..Len(rows) : rows[i].filename = f)

\* get_indexed_filenames() is called.
ListCall ==
    /\ pc = "idle" /\ spc = "none" /\ qPc = "idle"
    /\ caller' = "direct" /\ sOp' = "list"
    /\ opPre' = store /\ pre' = store /\ preTable' = tableExists
    /\ spc' = "ls_connect"
    /\ UNCHANGED <<dbVars, cfgVars>>
    /\ UNCHANGED <<pc, pdLocals, sFile, sChunks, sEmb, sRet, sRows, sFirstId,
                   faulted, sNames, steps, stepOk, last>>
    /\ UNCHANGED <<genVars, srVars, ckVars, fdVars, lcVars>>

\* connection = get_db_connection(); a failure is caught and [] returned.
LsConnect ==
    /\ spc = "ls_connect"
    /\ \/ ConnectOk /\ spc' = "ls_exec" /\ UNCHANGED <<sRet, faulted>>
       \/ ConnectFails
    /\ UNCHANGED <<tableExists, store, nextId, env>>
    /\ UNCHANGED <<pc, caller, pdLocals, sArgs, sRows, sFirstId, opPre, pdTrace>>
    /\ UNCHANGED <<sNames, genVars, srVars, ckVars, fdVars, lcVars>>

\* The SELECT and fetchall(); without the table, or when the database
\* fails, the except branch returns [].
LsExec ==
    /\ spc = "ls_exec"
    /\ \/ /\ tableExists
          /\ sNames' = DistinctFilenames(store)
          /\ sRet' = TRUE
          /\ UNCHANGED faulted
       \/ /\ ~tableExists
          /\ sRet' = FALSE
          /\ UNCHANGED <<sNames, faulted>>
       \/ /\ tableExists
          /\ faulted' = TRUE
          /\ sRet' = FALSE
          /\ UNCHANGED sNames
    /\ spc' = "ls_close"
    /\ UNCHANGED <<dbVars, cfgVars>>
    /\ UNCHANGED <<pc, caller, pdLocals, sArgs, sRows, sFirstId, opPre, pdTrace>>
    /\ UNCHANGED <<genVars, srVars, ckVars, fdVars, lcVars>>

\* finally: connection.close()
LsClose ==
    /\ spc = "ls_close"
    /\ openConns' = close(openConns)
    /\ work' = NoTxn
    /\ spc' = "ret"
    /\ UNCHANGED <<tableExists, store, nextId, cfgVars>>
    /\ UNCHANGED <<pc, caller, pdLocals, sArgs, sLocals, pdTrace>>
    /\ UNCHANGED <<sNames, genVars, srVars, ckVars, fdVars, lcVars>>

\* ----------------------------------------------------- similarity_search
QueryVectors == { <<0, 0>>, <<1, 0>>, <<-1, 0>>, <<0, 1>> }

\* One row of the SELECT: the score is
\* dot_product(embedding, q) / (embedding_norm * query_norm).
ResultOf(r, q, query_norm) ==
    [chunk_text |-> r.chunk_text, filename |-> r.filename,
     split_strategy |-> r.split_strategy,
     similarity_score |->
         Fraction(dot_product(r.embedding, q), r.embedding_norm * query_norm)]

\* FROM documents WHERE embedding_norm > 0, scored, in storage order.
Scored(rows, q, query_norm) ==
    LET live == SelectSeq(rows, LAMBDA r : r.embedding_norm > 0)
    IN  [i \in 1..Len(live) |-> ResultOf(live[i], q, query_norm)]

\* The SELECT without its ORDER BY: any Min(k, n) rows in any order.
RankedListsUnordered(scoredRows, k) ==
    LET n == Len(scoredRows)
        m == Min(k, n)
        picks == { f \in [1..m -> 1..n] :
                     \A i, j \in 1..m : i # j => f[i] # f[j] }
    IN  { [i \in 1..m |-> scoredRows[f[i]]] : f \in picks }

\* ORDER BY similarity_score DESC LIMIT k: every order of the first
\* Min(k, n) rows that is descending by score; rows of equal score come in
\* an order the database chooses.
RankedLists(scoredRows, k) ==
    LET n == Len(scoredRows)
        m == Min(k, n)
        picks == { f \in [1..m -> 1..n] :
                     /\ \A i, j \in 1..m : i # j => f[i] # f[j]
                     /\ \A i, j \in 1..m : i < j =>
                          ~ScoreGreater(scoredRows[f[j]].similarity_score,
                                        scoredRows[f[i]].similarity_score)
                     /\ \A u \in 1..n :
                          (\A i \in 1..m : f[i] # u) =>
                              \A i \in 1..m :
                                 ~ScoreGreater(scoredRows[u].similarity_score,
                                               scoredRows[f[i]].similarity_score) }
    IN  { [i \in 1..m |-> scoredRows[f[i]]] : f \in picks }

SrIdle ==
    /\ qPc = "idle" /\ qEmb = <<>> /\ topK = 0 /\ qIdx = 0
    /\ allResults = <<>> /\ finalResults = <<>> /\ seenChunks = <<>>
    /\ roundIdx = 0 /\ searchIdx = 0 /\ qOut = "none"
    /\ queriesIssued = 0 /\ visited = {} /\ qSeen = <<>>

\* similarity_search(query_embeddings, top_k) is called: an empty list
\* raises ValueError.
SearchCall ==
    /\ qPc = "idle"
    /\ \E qs \in SeqsOf(QueryVectors, 0, MaxQueries), k \in 1..MaxTopK :
          /\ qEmb' = qs /\ topK' = k
          /\ IF qs = <<>>
             THEN qPc' = "done" /\ qOut' = "ValueError"
             ELSE qPc' = "connect" /\ qOut' = qOut
    /\ UNCHANGED <<qIdx, allResults, finalResults, seenChunks, roundIdx,
                   searchIdx, queriesIssued, visited, qSeen>>
    /\ UNCHANGED <<dbVars, cfgVars, ixVars, genVars, ckVars, fdVars, lcVars>>

\* connection = get_db_connection(); a failure is raised as
\* DatabaseSearchError with no connection to close.
SrConnect ==
    /\ qPc = "connect"
    /\ \/ /\ ~ConfigMissing(config, env)
          /\ config' = load_configuration(config, env)
          /\ openConns' = openConns + 1
          /\ qPc' = "schema"
          /\ UNCHANGED qOut
       \/ /\ config' = IF ConfigMissing(config, env) THEN config
                       ELSE load_configuration(config, env)
          /\ qPc' = "done" /\ qOut' = "DatabaseSearchError"
          /\ UNCHANGED openConns
    /\ UNCHANGED <<qEmb, topK, qIdx, allResults, finalResults, seenChunks,
                   roundIdx, searchIdx, queriesIssued, visited, qSeen>>
    /\ UNCHANGED <<tableExists, store, nextId, work, env, ixVars, genVars, ckVars, fdVars, lcVars>>

\* ensure_database_schema(connection)
SrSchema ==
    /\ qPc = "schema"
    /\ \/ /\ tableExists' = TRUE
          /\ qPc' = "search" /\ qIdx' = 0
          /\ UNCHANGED qOut
       \/ /\ qPc' = "close" /\ qOut' = "DatabaseSearchError"
          /\ UNCHANGED <<tableExists, qIdx>>
    /\ UNCHANGED <<qEmb, topK, allResults, finalResults, seenChunks,
                   roundIdx, searchIdx, queriesIssued, visited, qSeen>>
    /\ UNCHANGED <<store, nextId, openConns, work, cfgVars, ixVars, genVars, ckVars, fdVars, lcVars>>

\* A search that never takes the zero-norm exit.
ZeroNormNever(query_norm) == FALSE

\* if query_norm == 0: return []
ZeroNorm(query_norm) == query_norm = 0

\* The SELECT divides by embedding_norm * query_norm for every row it
\* scores: a zero divisor makes the statement fail.
DivisionByZero(rows, query_norm) ==
    \E i \in 1..Len(rows) :
        rows[i].embedding_norm > 0 /\ rows[i].embedding_norm * query_norm = 0

\* A SELECT that also sees what an open transaction of another connection
\* has written and not committed.
VisibleDirty(rows, txn) == IF txn.active THEN txn.rows ELSE rows

\* The rows of documents a SELECT reads: those committed when it starts.
Visible(rows, txn) == rows

\* _search_single_embedding(embedding, connection, top_k) for the next
\* query vector: a zero norm returns [] before any statement; otherwise
\* the SELECT is executed, and a failure of it raises DatabaseSearchError.
SrSingle ==
    /\ qPc = "search" /\ qIdx < Len(qEmb)
    /\ LET embedding == qEmb[qIdx + 1]
           query_norm == vector_norm(embedding)
           rows == Visible(store, work)
       IN  IF ZeroNorm(query_norm)
           THEN /\ allResults' = Append(allResults, <<>>)
                /\ qIdx' = qIdx + 1
                /\ UNCHANGED <<qPc, qOut, queriesIssued, qSeen>>
           ELSE \/ /\ ~DivisionByZero(rows, query_norm)
                   /\ \E list \in RankedLists(Scored(rows, embedding, query_norm), topK) :
                         allResults' = Append(allResults, list)
                   /\ qSeen' = Append(qSeen, rows)
                   /\ queriesIssued' = queriesIssued + 1
                   /\ qIdx' = qIdx + 1
                   /\ UNCHANGED <<qPc, qOut>>
                \/ /\ queriesIssued' = queriesIssued + 1
                   /\ qPc' = "close" /\ qOut' = "DatabaseSearchError"
                   /\ UNCHANGED <<allResults, qIdx, qSeen>>
    /\ UNCHANGED <<qEmb, topK, finalResults, seenChunks, roundIdx, searchIdx, visited>>
    /\ UNCHANGED <<dbVars, cfgVars, ixVars, genVars, ckVars, fdVars, lcVars>>

\* final_results = _merge_search_results(all_search_results, top_k) starts.
SrMergeStart ==
    /\ qPc = "search" /\ qIdx = Len(qEmb)
    /\ qPc' = "merge" /\ roundIdx' = 0 /\ searchIdx' = 0
    /\ UNCHANGED <<qEmb, topK, qIdx, allResults, finalResults, seenChunks,
                   qOut, queriesIssued, visited, qSeen>>
    /\ UNCHANGED <<dbVars, cfgVars, ixVars, genVars, ckVars, fdVars, lcVars>>

\* ------------------------------------------------- _merge_search_results
\* A merge that stops one result short of top_k.
MergeFullEarly(final, k) == Len(final) + 1 >= k

\* if len(final_results) >= top_k: break
MergeFull(final, k) == Len(final) >= k

\* A merge that drops every later occurrence of a chunk text seen before.
AdmitKeepFirst(final, seen, res) ==
    IF res.chunk_text \in DOMAIN seen
    THEN [final |-> final, seen |-> seen]
    ELSE [final |-> Append(final, res),
          seen |-> (res.chunk_text :> (Len(final) + 1)) @@ seen]

\* A higher-scored occurrence of a chunk text seen before is moved to the
\* end of the result.
AdmitMovesDuplicate(final, seen, res) ==
    IF res.chunk_text \in DOMAIN seen
    THEN LET existing_index == seen[res.chunk_text]
             without == [i \in 1..(Len(final) - 1) |->
                            IF i < existing_index THEN final[i] ELSE final[i + 1]]
         IN  IF ScoreGreater(res.similarity_score,
                             final[existing_index].similarity_score)
             THEN [final |-> Append(without, res),
                   seen |-> [t \in DOMAIN seen |->
                               IF t = res.chunk_text THEN Len(final)
                               ELSE IF seen[t] > existing_index THEN seen[t] - 1
                               ELSE seen[t]]]
             ELSE [final |-> final, seen |-> seen]
    ELSE [final |-> Append(final, res),
          seen |-> (res.chunk_text :> (Len(final) + 1)) @@ seen]

\* The body of the inner loop for one result: a chunk text seen before
\* keeps its place and takes the new result when its score is higher; a
\* new chunk text is appended.
Admit(final, seen, res) ==
    IF res.chunk_text \in DOMAIN seen
    THEN LET existing_index == seen[res.chunk_text]
         IN  [final |->
                 IF ScoreGreater(res.similarity_score,
                                 final[existing_index].similarity_score)
                 THEN [final EXCEPT ![existing_index] = res]
                 ELSE final,
              seen |-> seen]
    ELSE [final |-> Append(final, res),
          seen |-> (res.chunk_text :> (Len(final) + 1)) @@ seen]

\* One pass of the inner loop: list search_index at rank round_index.
MergeVisit ==
    /\ qPc = "merge"
    /\ roundIdx < topK /\ ~MergeFull(finalResults, topK)
    /\ searchIdx < Len(allResults)
    /\ LET search_results == allResults[searchIdx + 1]
       IN  IF roundIdx >= Len(search_results)
           THEN UNCHANGED <<finalResults, seenChunks, visited>>
           ELSE LET next == Admit(finalResults, seenChunks,
                                  search_results[roundIdx + 1])
                IN  /\ finalResults' = next.final
                    /\ seenChunks' = next.seen
                    /\ visited' = visited \cup {<<searchIdx + 1, roundIdx + 1>>}
    /\ searchIdx' = searchIdx + 1
    /\ UNCHANGED <<qPc, qEmb, topK, qIdx, allResults, roundIdx, qOut, queriesIssued,
                   qSeen>>
    /\ UNCHANGED <<dbVars, cfgVars, ixVars, genVars, ckVars, fdVars, lcVars>>

\* The inner loop has gone through every list: next round_index.
MergeNextRound ==
    /\ qPc = "merge"
    /\ roundIdx < topK /\ ~MergeFull(finalResults, topK)
    /\ searchIdx = Len(allResults)
    /\ roundIdx' = roundIdx + 1 /\ searchIdx' = 0
    /\ UNCHANGED <<qPc, qEmb, topK, qIdx, allResults, finalResults, seenChunks,
                   qOut, queriesIssued, visited, qSeen>>
    /\ UNCHANGED <<dbVars, cfgVars, ixVars, genVars, ckVars, fdVars, lcVars>>

\* range(top_k) is used up or top_k results are collected: the merge
\* returns and similarity_search returns final_results.
MergeReturn ==
    /\ qPc = "merge"
    /\ (roundIdx >= topK \/ MergeFull(finalResults, topK))
    /\ qPc' = "close" /\ qOut' = "ok"
    /\ UNCHANGED <<qEmb, topK, qIdx, allResults, finalResults, seenChunks,
                   roundIdx, searchIdx, queriesIssued, visited, qSeen>>
    /\ UNCHANGED <<dbVars, cfgVars, ixVars, genVars, ckVars, fdVars, lcVars>>

\* finally: connection.close()
SrClose ==
    /\ qPc = "close"
    /\ openConns' = close(openConns)
    /\ qPc' = "done"
    /\ UNCHANGED <<qEmb, topK, qIdx, allResults, finalResults, seenChunks,
                   roundIdx, searchIdx, qOut, queriesIssued, visited, qSeen>>
    /\ UNCHANGED <<tableExists, store, nextId, work, cfgVars, ixVars, genVars, ckVars, fdVars, lcVars>>

\* The caller has the result; the next search starts from scratch.
SrReturn ==
    /\ qPc = "done"
    /\ qPc' = "idle" /\ qEmb' = <<>> /\ topK' = 0 /\ qIdx' = 0
    /\ allResults' = <<>> /\ finalResults' = <<>> /\ seenChunks' = <<>>
    /\ roundIdx' = 0 /\ searchIdx' = 0 /\ qOut' = "none"
    /\ queriesIssued' = 0 /\ visited' = {} /\ qSeen' = <<>>
    /\ UNCHANGED <<dbVars, cfgVars, ixVars, genVars, ckVars, fdVars, lcVars>>

\* The caller of generate_embeddings has the result.
GenReturn ==
    /\ gPc = "done"
    /\ gPc' = "idle" /\ gChunks' = <<>> /\ gBatchStart' = 0 /\ gAttempt' = 0
    /\ gEmbeddings' = <<>> /\ gRet' = <<>> /\ gOut' = "none"
    /\ gLog' = <<>> /\ bLog' = <<>> /\ bRet' = <<>>
    /\ UNCHANGED <<dbVars, cfgVars, ixVars, srVars, ckVars, fdVars, lcVars>>

\* ----------------------------------------- load_configuration, called alone
LoadIdle ==
    /\ lcPc = "idle" /\ lcBefore = NoConfig /\ lcRead = FALSE
    /\ lcOut = "none" /\ lcRet = NoConfig

\* load_configuration() is called: with a cached dictionary it returns it
\* at once; otherwise it reads the environment and raises
\* ConfigurationError or caches and returns the dictionary.
LoadCall ==
    /\ lcPc = "idle" /\ gPc = "idle"
    /\ lcBefore' = config
    /\ lcRead' = (config = NoConfig)
    /\ IF ConfigMissing(config, env)
       THEN /\ lcOut' = "ConfigurationError" /\ lcRet' = NoConfig
            /\ UNCHANGED config
       ELSE /\ lcOut' = "ok"
            /\ lcRet' = load_configuration(config, env)
            /\ config' = load_configuration(config, env)
    /\ lcPc' = "done"
    /\ UNCHANGED <<env, dbVars, ixVars, genVars, srVars, ckVars, fdVars>>

LoadReturn ==
    /\ lcPc = "done"
    /\ lcPc' = "idle" /\ lcBefore' = NoConfig /\ lcRead' = FALSE
    /\ lcOut' = "none" /\ lcRet' = NoConfig
    /\ UNCHANGED <<cfgVars, dbVars, ixVars, genVars, srVars, ckVars, fdVars>>

\* Between two calls the environment of the process changes.
EnvChange ==
    /\ lcPc = "idle" /\ gPc = "idle"
    /\ \E e \in EnvSet \ {env} : env' = e
    /\ UNCHANGED <<config, dbVars, ixVars, genVars, srVars, ckVars, fdVars, lcVars>>

\* ------------------------------------------------ _handle_process_folder
\* Files of the folder that are not .pdf or .docx.
Unsupported == {"u1"}

\* list_files_in_directory: the supported files of the folder, sorted.
list_files_in_directory(folder) == SelectSeq(FileOrder, LAMBDA f : f \in folder)

\* A loop that stops at the first file that fails.
ContinuesAfterSuccess(success) == success

\* _process_single_file reports the outcome of process_document, catches
\* what it raises, and the loop goes on.
ContinuesAfter(success) == TRUE

FolderIdle ==
    /\ fPc = "idle" /\ fFolder = {} /\ fFiles = <<>> /\ fIdx = 0
    /\ fCalls = <<>> /\ fResults = <<>>

\* Whether the loop goes on to the next file.
LoopGoesOn ==
    IF fResults = <<>> THEN TRUE ELSE ContinuesAfter(fResults[Len(fResults)])

\* _handle_process_folder lists the folder; without supported files it
\* returns.
FolderCall ==
    /\ fPc = "idle" /\ pc = "idle" /\ spc = "none" /\ qPc = "idle"
    /\ \E folder \in SUBSET (Files \cup Unsupported) :
          /\ fFolder' = folder
          /\ fFiles' = list_files_in_directory(folder)
          /\ fPc' = IF list_files_in_directory(folder) = <<>> THEN "done" ELSE "loop"
    /\ UNCHANGED <<fIdx, fCalls, fResults>>
    /\ UNCHANGED <<dbVars, cfgVars, ixVars, genVars, srVars, ckVars, lcVars>>

\* The loop takes the next file: _process_single_file(file_path) calls
\* process_document(str(file_path)).
FolderNext ==
    /\ fPc = "loop" /\ pc = "idle" /\ spc = "none"
    /\ fIdx < Len(fFiles) /\ LoopGoesOn
    /\ file' = fFiles[fIdx + 1]
    /\ fCalls' = Append(fCalls, fFiles[fIdx + 1])
    /\ fIdx' = fIdx + 1
    /\ pc' = "delete"
    /\ pre' = store /\ preTable' = tableExists
    /\ UNCHANGED <<fPc, fFolder, fFiles, fResults>>
    /\ UNCHANGED <<dbVars, cfgVars>>
    /\ UNCHANGED <<spc, caller, text, chunks, embeddings, result, sArgs, sLocals,
                   sNames, steps, stepOk, last>>
    /\ UNCHANGED <<genVars, srVars, ckVars, lcVars>>

\* process_document returns to _process_single_file.
FolderFileReturn ==
    /\ fPc = "loop" /\ pc = "done"
    /\ fResults' = Append(fResults, result)
    /\ last' = IF result
               THEN [file |-> file,
                     rows |-> RowsFor(sFile, sChunks, sEmb, sFirstId)]
               ELSE NoRun
    /\ IxReset
    /\ UNCHANGED <<fPc, fFolder, fFiles, fIdx, fCalls>>
    /\ UNCHANGED <<dbVars, cfgVars>>
    /\ UNCHANGED <<genVars, srVars, ckVars, lcVars>>

\* The loop is over.
FolderDone ==
    /\ fPc = "loop" /\ pc = "idle"
    /\ fIdx = Len(fFiles) \/ ~LoopGoesOn
    /\ fPc' = "done"
    /\ UNCHANGED <<fFolder, fFiles, fIdx, fCalls, fResults>>
    /\ UNCHANGED <<dbVars, cfgVars, ixVars, genVars, srVars, ckVars, lcVars>>

\* ------------------------------------- text extraction and chunking
\* re.sub(r'(\n\s*){2,}', '\n\n', raw_text): a match starts at a newline and
\* takes the whole run of whitespace after it, when that run holds a second
\* newline.
RECURSIVE WhitespaceRun(_)
WhitespaceRun(t) ==
    IF t = <<>> \/ ~IsSpace(Head(t)) THEN 0 ELSE 1 + WhitespaceRun(Tail(t))

Newlines(t) == Len(SelectSeq(t, LAMBDA c : c = "\n"))

RECURSIVE NormalizeBreaks(_)
NormalizeBreaks(t) ==
    IF t = <<>> THEN <<>>
    ELSE LET run == WhitespaceRun(t)
         IN  IF Head(t) = "\n" /\ Newlines(SubSeq(t, 1, run)) >= 2
             THEN <<"\n", "\n">> \o NormalizeBreaks(SubSeq(t, run + 1, Len(t)))
             ELSE <<Head(t)>> \o NormalizeBreaks(Tail(t))

\* _extract_pdf_text on the text of the pages.
extract_pdf_text(raw_text) ==
    IF raw_text = <<>> THEN <<>> ELSE NormalizeBreaks(raw_text)

\* The characters of the texts.
Chars == {"a", "b", " ", "\n"}

Texts == UNION { [1..n -> Chars] : n \in 0..MaxText }

\* chunk_by_paragraphs(text): the list, or ValueError.
Chunked(txt) ==
    IF ChunkInputInvalid(txt)
    THEN [out |-> "ValueError", chunks |-> <<>>]
    ELSE [out |-> "ok", chunks |-> chunk_by_paragraphs(txt)]

ChunkIdle ==
    /\ cPc = "idle" /\ cKind = "none" /\ cRaw = <<>> /\ cText = <<>>
    /\ cChunks = <<>> /\ cOut = "none" /\ cPassed = <<>> /\ cJoined = <<>>
    /\ cAgain = <<>> /\ cAgainOut = "none"

\* The text reaches the chunker: PDF text through _extract_pdf_text, DOCX
\* text and query text as they are.
ChunkExtract ==
    /\ cPc = "extract"
    /\ cText' = IF cKind = "pdf" THEN extract_pdf_text(cRaw) ELSE cRaw
    /\ cPc' = "chunk"
    /\ UNCHANGED <<cKind, cRaw, cChunks, cOut, cPassed, cJoined, cAgain, cAgainOut>>
    /\ UNCHANGED <<dbVars, cfgVars, ixVars, genVars, srVars, fdVars, lcVars>>

\* chunks = chunk_by_paragraphs(text)
ChunkApply ==
    /\ cPc = "chunk"
    /\ cOut' = Chunked(cText).out
    /\ cChunks' = Chunked(cText).chunks
    /\ cPc' = IF Chunked(cText).out = "ok" THEN "embed" ELSE "done"
    /\ UNCHANGED <<cKind, cRaw, cText, cPassed, cJoined, cAgain, cAgainOut>>
    /\ UNCHANGED <<dbVars, cfgVars, ixVars, genVars, srVars, fdVars, lcVars>>

\* embeddings = generate_embeddings(chunks), the next statement of
\* process_document and of create_query_embeddings: an empty list raises
\* ValueError there.
ChunkPass ==
    /\ cPc = "embed"
    /\ cPassed' = Append(cPassed, cChunks)
    /\ IF cChunks = <<>>
       THEN cPc' = "done" /\ cOut' = "EmbedValueError"
       ELSE cPc' = "rejoin" /\ cOut' = cOut
    /\ UNCHANGED <<cKind, cRaw, cText, cChunks, cJoined, cAgain, cAgainOut>>
    /\ UNCHANGED <<dbVars, cfgVars, ixVars, genVars, srVars, fdVars, lcVars>>

\* '\n\n'.join(chunks)
RECURSIVE JoinBlankLine(_)
JoinBlankLine(cs) ==
    IF cs = <<>> THEN <<>>
    ELSE IF Len(cs) = 1 THEN cs[1]
    ELSE cs[1] \o <<"\n", "\n">> \o JoinBlankLine(Tail(cs))

\* The returned chunks are joined by a blank line ...
ChunkRejoin ==
    /\ cPc = "rejoin"
    /\ cJoined' = JoinBlankLine(cChunks)
    /\ cPc' = "rechunk"
    /\ UNCHANGED <<cKind, cRaw, cText, cChunks, cOut, cPassed, cAgain, cAgainOut>>
    /\ UNCHANGED <<dbVars, cfgVars, ixVars, genVars, srVars, fdVars, lcVars>>

\* ... and chunked again.
ChunkAgain ==
    /\ cPc = "rechunk"
    /\ cAgainOut' = Chunked(cJoined).out
    /\ cAgain' = Chunked(cJoined).chunks
    /\ cPc' = "done"
    /\ UNCHANGED <<cKind, cRaw, cText, cChunks, cOut, cPassed, cJoined>>
    /\ UNCHANGED <<dbVars, cfgVars, ixVars, genVars, srVars, fdVars, lcVars>>

\* --------------------------------------------------------- specifications
\* A database on which nothing has run yet.
FreshDb ==
    /\ tableExists = FALSE /\ store = <<>> /\ nextId = 1
    /\ openConns = 0 /\ work = NoTxn

\* The rows a successful process_document leaves for one file.
IndexedRows(filename, t, firstId) ==
    IF t = <<>> THEN <<>>
    ELSE RowsFor(filename, chunk_by_paragraphs(t),
                 EmbedFrom(chunk_by_paragraphs(t), 0), firstId)

\* Stores left by indexing f1 and then f2 (<<>>: the file is not indexed).
SearchStores ==
    { IndexedRows("f1", t1, 1) \o IndexedRows("f2", t2, Len(IndexedRows("f1", t1, 1)) + 1) :
        t1 \in DocTexts \cup {<<>>},
        t2 \in {<<>>, <<"c", "\n", "\n", "\n", "b">>, <<"a", "\n", "\n", "b">>} }

\* Indexing and deleting, on a fresh database or on one whose schema a
\* search has created.
Init ==
    /\ tableExists \in BOOLEAN
    /\ store = <<>> /\ nextId = 1 /\ openConns = 0 /\ work = NoTxn
    /\ env = FullEnv /\ config = NoConfig
    /\ IxIdle /\ last = NoRun
    /\ GenIdle /\ SrIdle /\ ChunkIdle /\ FolderIdle /\ LoadIdle

Next ==
    \/ PdCall \/ PdDelete \/ PdAfterDelete \/ PdLoad \/ PdChunk \/ PdEmbed
    \/ PdStore \/ PdAfterStore \/ PdReturn
    \/ DeleteCall \/ DirectReturn
    \/ DelConnect \/ DelExec \/ DelCommit \/ DelRollback \/ DelClose
    \/ StValidate \/ StConnect \/ StSchema \/ StExec \/ StCommit
    \/ StRollback \/ StClose

Spec == Init /\ [][Next]_vars

\* generate_embeddings on chunk lists of every length up to MaxChunks.
InitEmbed ==
    /\ FreshDb
    /\ env \in EnvSet /\ config = NoConfig
    /\ IxIdle /\ last = NoRun
    /\ GenIdle /\ SrIdle /\ ChunkIdle /\ FolderIdle /\ LoadIdle

NextEmbed ==
    \/ GenCall \/ GenConfig \/ GenAttemptOk \/ GenExtend \/ GenAttemptFail
    \/ GenReturn

SpecEmbed == InitEmbed /\ [][NextEmbed]_vars

\* similarity_search on the stores indexing leaves.
InitSearch ==
    /\ store \in SearchStores
    /\ tableExists \in (IF store = <<>> THEN BOOLEAN ELSE {TRUE})
    /\ nextId = Len(store) + 1 /\ openConns = 0 /\ work = NoTxn
    /\ env = FullEnv /\ config = NoConfig
    /\ IxIdle /\ last = NoRun
    /\ GenIdle /\ SrIdle /\ ChunkIdle /\ FolderIdle /\ LoadIdle

NextSearch ==
    \/ SearchCall \/ SrConnect \/ SrSchema \/ SrSingle \/ SrMergeStart
    \/ MergeVisit \/ MergeNextRound \/ MergeReturn \/ SrClose \/ SrReturn

SpecSearch == InitSearch /\ [][NextSearch]_vars

\* similarity_search(query_embeddings, 1) is called with no query vector,
\* with a zero vector or with a vector of norm 1.
SearchCallOnce ==
    /\ qPc = "idle" /\ pc = "idle" /\ spc = "none"
    /\ \E qs \in {<<>>, << <<0, 0>> >>, << <<1, 0>> >>} :
          /\ qEmb' = qs /\ topK' = 1
          /\ IF qs = <<>>
             THEN qPc' = "done" /\ qOut' = "ValueError"
             ELSE qPc' = "connect" /\ qOut' = qOut
    /\ UNCHANGED <<qIdx, allResults, finalResults, seenChunks, roundIdx,
                   searchIdx, queriesIssued, visited, qSeen>>
    /\ UNCHANGED <<dbVars, cfgVars, ixVars, genVars, ckVars, fdVars, lcVars>>

\* chunk_by_paragraphs on every text of up to MaxText characters, as PDF
\* text and as DOCX or query text.
InitChunk ==
    /\ FreshDb
    /\ env = FullEnv /\ config = NoConfig
    /\ IxIdle /\ last = NoRun
    /\ GenIdle /\ SrIdle /\ FolderIdle /\ LoadIdle
    /\ cPc = "extract" /\ cKind \in {"pdf", "plain"} /\ cRaw \in Texts
    /\ cText = <<>> /\ cChunks = <<>> /\ cOut = "none" /\ cPassed = <<>>
    /\ cJoined = <<>> /\ cAgain = <<>> /\ cAgainOut = "none"

NextChunk == ChunkExtract \/ ChunkApply \/ ChunkPass \/ ChunkRejoin \/ ChunkAgain

SpecChunk == InitChunk /\ [][NextChunk]_vars

\* One run of folder processing on the stores indexing leaves.
NextFolder ==
    \/ FolderCall \/ FolderNext \/ FolderFileReturn \/ FolderDone
    \/ PdDelete \/ PdAfterDelete \/ PdLoad \/ PdChunk \/ PdEmbed
    \/ PdStore \/ PdAfterStore
    \/ DelConnect \/ DelExec \/ DelCommit \/ DelRollback \/ DelClose
    \/ StValidate \/ StConnect \/ StSchema \/ StExec \/ StCommit
    \/ StRollback \/ StClose

SpecFolder == InitSearch /\ [][NextFolder]_vars

\* load_configuration and generate_embeddings in a process whose
\* environment changes between the calls.
NextConfig ==
    \/ LoadCall \/ LoadReturn \/ EnvChange
    \/ GenCall \/ GenConfig \/ GenAttemptOk \/ GenExtend \/ GenAttemptFail
    \/ GenReturn

SpecConfig == InitEmbed /\ [][NextConfig]_vars

\* store_chunks_to_db on its own, with valid and invalid arguments.
NextInsert ==
    \/ StoreCall \/ DirectReturn
    \/ StValidate \/ StConnect \/ StSchema \/ StExec \/ StCommit
    \/ StRollback \/ StClose

SpecInsert == Init /\ [][NextInsert]_vars

\* Every store operation, one call at a time (the program is
\* single-threaded): indexing, deleting, listing and searching on the
\* stores that indexing has left.
NextStore ==
    \/ PdCall \/ PdDelete \/ PdAfterDelete \/ PdLoad \/ PdChunk \/ PdEmbed
    \/ PdStore \/ PdAfterStore \/ PdReturn
    \/ DeleteCall \/ ListCall \/ DirectReturn
    \/ DelConnect \/ DelExec \/ DelCommit \/ DelRollback \/ DelClose
    \/ StValidate \/ StConnect \/ StSchema \/ StExec \/ StCommit
    \/ StRollback \/ StClose
    \/ LsConnect \/ LsExec \/ LsClose
    \/ SearchCallOnce \/ SrConnect \/ SrSchema \/ SrSingle \/ SrMergeStart
    \/ MergeVisit \/ MergeNextRound \/ MergeReturn \/ SrClose \/ SrReturn

SpecStore == Init /\ [][NextStore]_vars

\* ------------------------------------- a search while a file is re-indexed
\* The rows of f1 after its first indexing.
OldGeneration == IndexedRows("f1", <<"a", "\n", "\n", "b">>, 1)

\* process_document("f1") is called for the indexed file f1, whatever a
\* search started by another process is doing.
ReindexCall ==
    /\ pc = "idle" /\ spc = "none"
    /\ nextId + 1 <= MaxId
    /\ file' = "f1"
    /\ pc' = "delete"
    /\ pre' = store /\ preTable' = tableExists
    /\ UNCHANGED <<dbVars, cfgVars>>
    /\ UNCHANGED <<spc, caller, text, chunks, embeddings, result, sArgs, sLocals,
                   steps, stepOk, last>>
    /\ UNCHANGED <<sNames, genVars, srVars, ckVars, fdVars, lcVars>>

\* similarity_search(query_embeddings, 2) is called by another process with
\* one or two query vectors, at any point of the indexing run.
SearchCallDuring ==
    /\ qPc = "idle"
    /\ \E qs \in { << <<1, 0>> >>, << <<1, 0>>, <<0, 1>> >> } :
          qEmb' = qs
    /\ topK' = 2
    /\ qPc' = "connect"
    /\ UNCHANGED <<qIdx, allResults, finalResults, seenChunks, roundIdx,
                   searchIdx, qOut, queriesIssued, visited, qSeen>>
    /\ UNCHANGED <<dbVars, cfgVars, ixVars, genVars, ckVars, fdVars, lcVars>>

InitConcurrent ==
    /\ store = OldGeneration
    /\ tableExists = TRUE
    /\ nextId = Len(store) + 1 /\ openConns = 0 /\ work = NoTxn
    /\ env = FullEnv /\ config = NoConfig
    /\ IxIdle /\ last = NoRun
    /\ GenIdle /\ SrIdle /\ ChunkIdle /\ FolderIdle /\ LoadIdle

NextConcurrent ==
    \/ ReindexCall \/ PdDelete \/ PdAfterDelete \/ PdLoad \/ PdChunk \/ PdEmbed
    \/ PdStore \/ PdAfterStore \/ PdReturn
    \/ DelConnect \/ DelExec \/ DelCommit \/ DelRollback \/ DelClose
    \/ StValidate \/ StConnect \/ StSchema \/ StExec \/ StCommit
    \/ StRollback \/ StClose
    \/ SearchCallDuring \/ SrConnect \/ SrSchema \/ SrSingle \/ SrMergeStart
    \/ MergeVisit \/ MergeNextRound \/ MergeReturn \/ SrClose \/ SrReturn

SpecConcurrent == InitConcurrent /\ [][NextConcurrent]_vars

\* ================================================================ claims
\* -------------------------------------------------------------------- C8
\* C8: when generate_embeddings returns normally for a non-empty chunk
\* list of length n, it returns exactly n vectors and vector i is the
\* vector the remote model gives for chunk i, across batch boundaries.
C8_EmbeddingsMatchChunks ==
    gOut = "ok" =>
        /\ gChunks # <<>>
        /\ Len(gRet) = Len(gChunks)
        /\ \A i \in 1..Len(gChunks) : gRet[i] = EmbedOf(gChunks[i])

\* A list of 25 chunks (three batches, the last one partial) embedded
\* after at least one failed attempt.
C8_Witness ==
    /\ gOut = "ok" /\ Len(gChunks) = 25 /\ Len(gRet) = 25
    /\ \E i \in 1..Len(gLog) : gLog[i].e = "call_fail"

\* -------------------------------------------------------------------- C9
IsCall(ev) == ev.e \in {"call_ok", "call_fail"}

\* C9: within one _embed_with_retry the remote call is attempted at most 3
\* times; only failed attempts are followed by anything; a sleep of 1 s
\* comes before the 2nd attempt and one of 2 s before the 3rd; the error is
\* raised only when the 3rd attempt has failed, with no sleep after it; an
\* attempt that succeeds ends the call with that attempt's result.
C9_RetrySchedule ==
    /\ Len(bLog) <= 5
    /\ \A i \in 1..Len(bLog) :
          /\ (i % 2 = 1) => IsCall(bLog[i])
          /\ (i = 2) => bLog[i] = SleepEvent(1000)
          /\ (i = 4) => bLog[i] = SleepEvent(2000)
          /\ (i < Len(bLog)) => bLog[i].e # "call_ok"
    /\ (gPc = "attempt") => (Len(bLog) = 2 * gAttempt /\ gAttempt < 3)
    /\ (gOut = "EmbeddingGenerationError" /\ gLog # <<>>) =>
          (Len(bLog) = 5 /\ bLog[5] = CallEvent(FALSE))
    /\ (gPc = "extend") =>
          /\ bLog[Len(bLog)] = CallEvent(TRUE)
          /\ bRet = [i \in 1..(BatchEnd(gChunks, gBatchStart) - gBatchStart) |->
                        EmbedOf(gChunks[gBatchStart + i])]

\* The second batch fails three times: 1 s and 2 s were slept, then the
\* error was raised.
C9_Witness ==
    /\ gOut = "EmbeddingGenerationError" /\ gBatchStart = 10
    /\ bLog = <<CallEvent(FALSE), SleepEvent(1000), CallEvent(FALSE),
                SleepEvent(2000), CallEvent(FALSE)>>

\* -------------------------------------------------------------------- C1
\* C1: when process_document(s) succeeds right after a successful
\* process_document(s), the store holds for s exactly the rows the second
\* run wrote, one per chunk of the second run, and none of the first run.
C1_ReindexReplaces ==
    (pc = "done" /\ result /\ last.file = file) =>
        LET mine == RowsOf(store, file)
        IN  /\ Len(mine) = Len(sChunks)
            /\ \A i \in 1..Len(mine) :
                  /\ mine[i].id = sFirstId + i - 1
                  /\ mine[i].chunk_text = sChunks[i]
                  /\ mine[i].embedding = sEmb[i]
            /\ \A i \in 1..Len(last.rows), j \in 1..Len(store) :
                  store[j] # last.rows[i]

\* A file indexed with two chunks is indexed again with one chunk.
C1_Witness ==
    /\ pc = "done" /\ result /\ last.file = file
    /\ Len(last.rows) = 2 /\ Len(sChunks) = 1
    /\ Len(RowsOf(store, file)) = 1

\* -------------------------------------------------------------------- C2
\* C2: while and after store_chunks_to_db runs, the committed rows are
\* those committed before the call, or those followed by one row per
\* (chunk, vector) pair of the whole batch; it returns True exactly in the
\* second case, and after a failed statement or commit the rows are those
\* committed before the call.
C2_BulkInsertAtomic ==
    (sOp = "store") =>
        LET n == Len(store) - Len(opPre)
            added == SubSeq(store, Len(opPre) + 1, Len(store))
            whole ==
                /\ n = Len(sChunks) /\ n = Len(sEmb)
                /\ SubSeq(store, 1, Len(opPre)) = opPre
                /\ \A i \in 1..n :
                      /\ added[i].filename = sFile
                      /\ added[i].chunk_text = sChunks[i]
                      /\ added[i].embedding = sEmb[i]
        IN  /\ (store = opPre \/ whole)
            /\ (spc \in {"st_validate", "st_connect", "st_schema", "st_exec",
                         "st_commit", "st_rollback"}) => store = opPre
            /\ (spc \in {"st_close", "ret"}) =>
                  IF sRet THEN (whole /\ n > 0) ELSE store = opPre

\* The INSERT put rows into the transaction, then the call failed and
\* returned False, with rows of another file in the store.
C2_Witness ==
    /\ sOp = "store" /\ spc = "ret" /\ ~sRet /\ faulted
    /\ sFirstId > 0 /\ nextId > sFirstId
    /\ Len(sChunks) = 2 /\ store # <<>>

\* -------------------------------------------------------------------- C5
\* C5: the steps of process_document start in the order delete, load,
\* chunk, embed, store, each at most once; a step starts only when every
\* step before it has succeeded; the outcome is Success exactly when all
\* five steps succeeded; after a failed delete step no text was loaded, no
\* embedding was requested and the store is as it was.
C5_PipelineOrder ==
    /\ Len(steps) <= 5
    /\ steps = SubSeq(PipelineOrder, 1, Len(steps))
    /\ Len(stepOk) <= Len(steps)
    /\ \A i \in 1..Len(stepOk) : (i < Len(steps)) => stepOk[i]
    /\ (pc = "done") =>
          /\ Len(stepOk) = Len(steps)
          /\ result = (Len(steps) = 5 /\ \A i \in 1..5 : stepOk[i])
          /\ (~stepOk[1]) =>
                /\ steps = <<"delete">>
                /\ text = <<>> /\ chunks = <<>> /\ embeddings = <<>>
                /\ sChunks = <<>> /\ sEmb = <<>>
                /\ store = pre

\* The delete step failed on a file that has rows in the store.
C5_Witness ==
    /\ pc = "done" /\ ~result /\ stepOk = <<FALSE>>
    /\ RowsOf(store, file) # <<>>

\* -------------------------------------------------------------------- C6
\* C6: delete_document_data(s) for any string s given as filename (the
\* empty string included), called alone or as step 1 of process_document,
\* leaves the store unchanged until it commits; when it returns True no
\* row of s is left and the rows of every other filename are the same, in
\* the same order; when it returns False the store is unchanged.
C6_DeleteBySource ==
    /\ (sOp = "delete" /\ sFile # None) =>
          /\ (spc \in {"del_connect", "del_exec", "del_commit", "del_rollback"})
                => store = opPre
          /\ (spc \in {"del_close", "ret"}) =>
                IF sRet
                THEN /\ \A i \in 1..Len(store) : store[i].filename # sFile
                     /\ \A f \in Files \ {sFile} :
                           SelectSeq(store, LAMBDA r : r.filename = f)
                             = SelectSeq(opPre, LAMBDA r : r.filename = f)
                     /\ Len(store) = Len(opPre)
                           - Len(SelectSeq(opPre, LAMBDA r : r.filename = sFile))
                ELSE store = opPre
    /\ (pc = "load") =>
          /\ \A i \in 1..Len(store) : store[i].filename # file
          /\ \A f \in Files \ {file} :
                SelectSeq(store, LAMBDA r : r.filename = f)
                  = SelectSeq(pre, LAMBDA r : r.filename = f)

\* The same for the filenames that pass `if filename:`.
DeleteByNonEmptySource ==
    /\ (sOp = "delete" /\ Truthy(sFile)) =>
          /\ (spc \in {"del_connect", "del_exec", "del_commit", "del_rollback"})
                => store = opPre
          /\ (spc \in {"del_close", "ret"}) =>
                IF sRet
                THEN /\ \A i \in 1..Len(store) : store[i].filename # sFile
                     /\ \A f \in Files \ {sFile} :
                           SelectSeq(store, LAMBDA r : r.filename = f)
                             = SelectSeq(opPre, LAMBDA r : r.filename = f)
                ELSE store = opPre
    /\ (pc = "load" /\ Truthy(file)) =>
          /\ \A i \in 1..Len(store) : store[i].filename # file
          /\ \A f \in Files \ {file} :
                SelectSeq(store, LAMBDA r : r.filename = f)
                  = SelectSeq(pre, LAMBDA r : r.filename = f)

\* -------------------------------------------------------------------- C7
\* C7: delete_document_data(s) for a string s given as filename that has
\* no row in the store returns True with zero rows affected and leaves the
\* store unchanged, whenever the database itself does not fail.
C7_DeleteMissingSucceeds ==
    (sOp = "delete" /\ sFile # None /\ spc = "ret" /\ ~faulted
       /\ \A i \in 1..Len(opPre) : opPre[i].filename # sFile) =>
        (sRet /\ sRows = 0 /\ store = opPre)

\* -------------------------------------------------------------------- C3
Descending(results) ==
    \A i, j \in 1..Len(results) :
        (i < j) => ~ScoreGreater(results[j].similarity_score,
                                 results[i].similarity_score)

NonEmptyLists == { i \in 1..Len(allResults) : allResults[i] # <<>> }

\* C3 as claimed: the list similarity_search returns is non-increasing in
\* similarity score, for any number of query vectors.
C3_ResultsDescending ==
    (qOut = "ok") => Descending(finalResults)

\* C3 as amended: every per-query list is non-increasing in score, and the
\* list similarity_search returns is non-increasing when at most one
\* per-query list is non-empty (one query vector, or every other query
\* vector of zero norm or without a scored row).
C3_SingleListDescending ==
    /\ \A i \in 1..Len(allResults) : Descending(allResults[i])
    /\ (qOut = "ok" /\ Cardinality(NonEmptyLists) <= 1) => Descending(finalResults)

\* Two query vectors, one of them of zero norm, and a result of at least
\* two different scores.
C3_Witness ==
    /\ qOut = "ok" /\ Len(qEmb) = 2 /\ Cardinality(NonEmptyLists) = 1
    /\ Len(finalResults) >= 2
    /\ ScoreGreater(finalResults[1].similarity_score,
                    finalResults[Len(finalResults)].similarity_score)

\* -------------------------------------------------------------------- C4
NoDuplicateText(results) ==
    \A i, j \in 1..Len(results) :
        (i # j) => results[i].chunk_text # results[j].chunk_text

\* Positions <<list, rank>> of the per-query lists that hold chunk text t.
Occurrences(t) ==
    { p \in { <<l, r>> : l \in 1..Len(allResults), r \in 1..MaxTopK + 1 } :
        /\ p[2] <= Len(allResults[p[1]])
        /\ allResults[p[1]][p[2]].chunk_text = t }

\* C4 as claimed: the merged result holds no chunk text twice, and a chunk
\* text that occurs in more than one per-query list carries the highest
\* score of all its occurrences in the per-query lists.
C4_MergeKeepsHighest ==
    (qOut = "ok") =>
        /\ NoDuplicateText(finalResults)
        /\ \A i \in 1..Len(finalResults) :
              \A p \in Occurrences(finalResults[i].chunk_text) :
                 ~ScoreGreater(allResults[p[1]][p[2]].similarity_score,
                               finalResults[i].similarity_score)

\* C4 as amended: at every point of the merge the result holds no chunk
\* text twice, and each entry carries the highest score among the
\* occurrences of its chunk text that the merge has visited; occurrences
\* the merge does not reach before top_k results are collected are not
\* compared.
C4_MergeKeepsHighestVisited ==
    /\ NoDuplicateText(finalResults)
    /\ \A i \in 1..Len(finalResults) :
          LET seenAt == Occurrences(finalResults[i].chunk_text) \cap visited
          IN  /\ \A p \in seenAt :
                    ~ScoreGreater(allResults[p[1]][p[2]].similarity_score,
                                  finalResults[i].similarity_score)
              /\ \E p \in seenAt :
                    allResults[p[1]][p[2]].similarity_score
                        = finalResults[i].similarity_score
    /\ \A p \in visited :
          \E i \in 1..Len(finalResults) :
             finalResults[i].chunk_text = allResults[p[1]][p[2]].chunk_text

\* A chunk text admitted from the first list was replaced by its
\* higher-scored occurrence in the second list.
C4_Witness ==
    /\ qOut = "ok" /\ Len(finalResults) >= 2
    /\ \E i \in 1..Len(finalResults) :
          \E p \in Occurrences(finalResults[i].chunk_text) \cap visited :
             /\ p[1] = 1
             /\ ScoreGreater(finalResults[i].similarity_score,
                             allResults[p[1]][p[2]].similarity_score)

\* ------------------------------------------------------------------- C10
\* Query vectors among the first k whose norm is not zero.
NonZeroQueries(k) == { i \in 1..k : vector_norm(qEmb[i]) # 0 }

AllZero == \A i \in 1..Len(qEmb) : vector_norm(qEmb[i]) = 0

\* C10: a query vector of zero norm gets the empty list and no statement
\* is executed for it; the statements executed are one per query vector of
\* non-zero norm searched so far; a search whose vectors all have zero
\* norm and that got its connection and schema returns the empty list
\* without an error; the vectors after a zero vector are still searched.
C10_ZeroVectorSkipped ==
    /\ \A i \in 1..Len(allResults) :
          (vector_norm(qEmb[i]) = 0) => allResults[i] = <<>>
    /\ (qOut # "DatabaseSearchError") =>
          queriesIssued = Cardinality(NonZeroQueries(Len(allResults)))
    /\ (qEmb # <<>> /\ AllZero /\ qPc \in {"search", "merge", "close", "done"}
          /\ Len(allResults) = Len(qEmb)) =>
          (qOut \in {"none", "ok"} /\ finalResults = <<>> /\ queriesIssued = 0)
    /\ (qOut = "ok") =>
          /\ Len(allResults) = Len(qEmb)
          /\ queriesIssued = Cardinality(NonZeroQueries(Len(qEmb)))

\* A zero vector followed by a vector that finds rows.
C10_Witness ==
    /\ qOut = "ok" /\ Len(qEmb) = 2
    /\ vector_norm(qEmb[1]) = 0 /\ vector_norm(qEmb[2]) # 0
    /\ allResults[1] = <<>> /\ allResults[2] # <<>>
    /\ finalResults # <<>>


\* ------------------------------------------------------------------- C11
\* C11: bulk insert, delete by source, delete all, list sources and
\* similarity search each hold at most one connection, opened by the
\* operation itself, and have closed it when they return or raise, on
\* success, validation failure and database error alike; when no store
\* operation is in progress no connection is open.
C11_ConnectionsClosed ==
    /\ openConns \in {0, 1}
    /\ (/\ spc \in {"none", "ret", "del_connect", "st_validate", "st_connect",
                     "ls_connect"}
        /\ qPc \in {"idle", "connect", "done"}) => openConns = 0
    /\ (spc \in {"del_exec", "del_commit", "del_rollback", "del_close",
                 "st_schema", "st_exec", "st_commit", "st_rollback", "st_close",
                 "ls_exec", "ls_close"}) => openConns = 1
    /\ (qPc \in {"schema", "search", "merge", "close"}) => openConns = 1

\* A search on a non-empty store has raised DatabaseSearchError after its
\* SELECT failed on the open connection.
C11_Witness ==
    /\ qPc = "done" /\ qOut = "DatabaseSearchError" /\ queriesIssued = 1
    /\ store # <<>> /\ openConns = 0

\* ------------------------------------------------------------------- C12
\* C12: store_chunks_to_db called with a chunk count that differs from the
\* vector count, with an empty chunk list, with an empty vector list or
\* with an empty filename fails on validation: it reports failure, opens
\* no connection and leaves the committed rows as they were.
C12_ValidationRejects ==
    (/\ sOp = "store"
     /\ \/ Len(sChunks) # Len(sEmb)
        \/ sChunks = <<>>
        \/ sEmb = <<>>
        \/ sFile = "") =>
        /\ spc \in {"st_validate", "ret"}
        /\ store = opPre
        /\ openConns = 0 /\ work = NoTxn
        /\ (spc = "ret") => ~sRet

\* Two chunks with one vector were rejected on a store that holds rows.
C12_Witness ==
    /\ sOp = "store" /\ spc = "ret" /\ ~sRet
    /\ Len(sChunks) = 2 /\ Len(sEmb) = 1 /\ sFile = "f1"
    /\ store # <<>> /\ store = opPre

\* ------------------------------------------------------------------- C13
\* The lines of a text.
RECURSIVE LinesOf(_, _)
LinesOf(t, cur) ==
    IF t = <<>> THEN <<cur>>
    ELSE IF Head(t) = "\n" THEN <<cur>> \o LinesOf(Tail(t), <<>>)
    ELSE LinesOf(Tail(t), Append(cur, Head(t)))

\* A blank line is an empty line; with wsBlank a line of whitespace too.
BlankLine(line, wsBlank) == line = <<>> \/ (wsBlank /\ Strip(line) = <<>>)

\* The maximal runs of lines that are not blank, each joined by newlines.
RECURSIVE GroupLines(_, _, _, _)
GroupLines(lines, cur, open, wsBlank) ==
    IF lines = <<>> THEN (IF open THEN <<cur>> ELSE <<>>)
    ELSE IF BlankLine(Head(lines), wsBlank)
         THEN (IF open THEN <<cur>> ELSE <<>>)
              \o GroupLines(Tail(lines), <<>>, FALSE, wsBlank)
         ELSE GroupLines(Tail(lines),
                         IF open THEN cur \o <<"\n">> \o Head(lines)
                                 ELSE Head(lines),
                         TRUE, wsBlank)

\* The paragraphs of a text in source order, without surrounding
\* whitespace, those of whitespace only left out.
ParagraphsOf(t, wsBlank) ==
    LET groups == GroupLines(LinesOf(t, <<>>), <<>>, FALSE, wsBlank)
        stripped == [i \in 1..Len(groups) |-> Strip(groups[i])]
    IN  SelectSeq(stripped, LAMBDA g : g # <<>>)

HasBlankLine(c) == \E i \in 1..(Len(c) - 1) : c[i] = "\n" /\ c[i + 1] = "\n"

HasWhitespaceLine(c) ==
    \E i, j \in 1..Len(c) :
        /\ i < j /\ c[i] = "\n" /\ c[j] = "\n"
        /\ \A k \in (i + 1)..(j - 1) : IsSpace(c[k])

\* C13: chunk_by_paragraphs(text) returns, in source order, exactly the
\* paragraphs of text, a paragraph break being any run of one or more
\* blank (empty) lines: every chunk is non-empty, starts and ends with a
\* character that is not whitespace and contains no blank line.  For PDF
\* text, whose breaks _extract_pdf_text normalizes first, lines of
\* whitespace count as blank lines too.
C13_ChunksAreParagraphs ==
    (cOut = "ok") =>
        /\ cChunks = ParagraphsOf(cText, FALSE)
        /\ \A i \in 1..Len(cChunks) :
              /\ cChunks[i] # <<>>
              /\ ~IsSpace(cChunks[i][1])
              /\ ~IsSpace(cChunks[i][Len(cChunks[i])])
              /\ ~HasBlankLine(cChunks[i])
        /\ (cKind = "pdf") =>
              /\ cChunks = ParagraphsOf(cRaw, TRUE)
              /\ \A i \in 1..Len(cChunks) : ~HasWhitespaceLine(cChunks[i])

\* Two paragraphs separated by two blank lines: the second piece of the
\* split starts with a newline.
C13_Witness ==
    /\ cOut = "ok" /\ cText = <<"a", "\n", "\n", "\n", "b">>
    /\ cChunks = << <<"a">>, <<"b">> >>

\* ------------------------------------------------------------------- C14
\* C14: for every text that is not empty or of whitespace only, chunking
\* the chunks of the text joined by a blank line returns the same chunks
\* in the same order.
C14_ChunkIdempotent ==
    (cPc = "done" /\ cOut = "ok") =>
        /\ cAgainOut = "ok"
        /\ cAgain = cChunks

\* A text of two paragraphs that differs from its joined chunks.
C14_Witness ==
    /\ cPc = "done" /\ cOut = "ok" /\ Len(cChunks) = 2
    /\ cJoined # cText /\ cAgain = cChunks

\* ------------------------------------------------------------------- C15
\* C15: chunk_by_paragraphs raises ValueError exactly for the texts that
\* are empty or of whitespace only; for every other text it returns at
\* least one chunk, so the list that the indexing and the query pipeline
\* pass on to generate_embeddings is never empty.
C15_ChunkRejectsBlank ==
    /\ (cPc \notin {"idle", "extract", "chunk"}) =>
          /\ (cOut = "ValueError") <=> (\A i \in 1..Len(cText) : IsSpace(cText[i]))
          /\ (cOut # "ValueError") => Len(cChunks) >= 1
    /\ \A i \in 1..Len(cPassed) : cPassed[i] # <<>>
    /\ cOut # "EmbedValueError"

\* A text of blank lines and spaces was rejected.
C15_Witness ==
    /\ cPc = "done" /\ cOut = "ValueError" /\ cPassed = <<>>
    /\ cText = <<" ", "\n", "\n", " ">>

\* ------------------------------------------------------------------- C16
Position(f) == CHOOSE i \in 1..Len(FileOrder) : FileOrder[i] = f

\* C16: folder processing gives every supported file of the folder to
\* process_document exactly once, in sorted order, whatever process_document
\* returned for the files before it; and while process_document runs on
\* one file, whether it fails or not, the rows of every other file stay as
\* they were when it was called.
C16_FolderProcessesAll ==
    /\ \A i \in 1..Len(fCalls) : fCalls[i] \in (fFolder \cap Files)
    /\ \A i, j \in 1..Len(fCalls) :
          (i < j) => Position(fCalls[i]) < Position(fCalls[j])
    /\ Len(fResults) <= Len(fCalls)
    /\ (fPc = "done") =>
          /\ \A f \in (fFolder \cap Files) : \E i \in 1..Len(fCalls) : fCalls[i] = f
          /\ Len(fResults) = Len(fCalls)
    /\ (fPc = "loop" /\ pc # "idle") =>
          \A f \in Files \ {file} : RowsOf(store, f) = RowsOf(pre, f)

\* A folder of two supported files and one other file: the first file
\* failed, the second was indexed.
C16_Witness ==
    /\ fPc = "done" /\ fFolder = {"f1", "f2", "u1"}
    /\ fCalls = <<"f1", "f2">> /\ fResults = <<FALSE, TRUE>>
    /\ RowsOf(store, "f2") # <<>>

\* ------------------------------------------------------------------- C17
EnvIncomplete == env.api_key = "" \/ env.embedding_model = "" \/ env.postgres_url = ""

\* C17: load_configuration raises ConfigurationError and caches nothing
\* when nothing is cached and one of the three values is missing; once a
\* call has succeeded, every later call returns the cached dictionary
\* without reading the environment, whatever the environment holds then;
\* and when generate_embeddings cannot load the configuration, it raises
\* EmbeddingGenerationError without a remote call.
C17_ConfigurationCached ==
    /\ (lcPc = "done") =>
          IF lcBefore # NoConfig
          THEN /\ lcOut = "ok" /\ lcRet = lcBefore /\ config = lcBefore
               /\ ~lcRead
          ELSE IF EnvIncomplete
          THEN lcOut = "ConfigurationError" /\ config = NoConfig
          ELSE /\ lcOut = "ok" /\ lcRet = config /\ lcRead
               /\ config.api_key = env.api_key
               /\ config.postgres_url = env.postgres_url
               /\ config.embedding_model # ""
    /\ (gPc \notin {"idle", "config"} /\ gChunks # <<>> /\ config = NoConfig) =>
          /\ gPc = "done" /\ gOut = "EmbeddingGenerationError"
          /\ gLog = <<>> /\ gRet = <<>>
    /\ (gLog # <<>>) => config # NoConfig

\* A call after the first success, made when the environment has lost the
\* credential, returned the cached dictionary.
C17_Witness ==
    /\ lcPc = "done" /\ lcOut = "ok" /\ lcBefore # NoConfig
    /\ env.api_key = "" /\ lcRet.api_key = "k"

\* ------------------------------------------------------------------- C18
\* The entries of the per-query lists at one rank, in list order.
RoundOf(rank) ==
    SelectSeq([l \in 1..Len(allResults) |-> <<l, rank>>],
              LAMBDA p : p[2] <= Len(allResults[p[1]]))

RECURSIVE RoundsFrom(_)
RoundsFrom(rank) ==
    IF rank > topK THEN <<>> ELSE RoundOf(rank) \o RoundsFrom(rank + 1)

\* Round-robin order over the per-query lists: rank 1 of every list in
\* list order, then rank 2 of every list, and so on.
VisitOrder == RoundsFrom(1)

RECURSIVE FirstOccurrences(_)
FirstOccurrences(texts) ==
    IF texts = <<>> THEN <<>>
    ELSE LET front == FirstOccurrences(SubSeq(texts, 1, Len(texts) - 1))
             t == texts[Len(texts)]
         IN  IF \E i \in 1..Len(front) : front[i] = t
             THEN front ELSE Append(front, t)

\* C18: at every point of the merge the entries visited so far are an
\* initial part of the round-robin order (rank 1 of each list in list
\* order, then rank 2, ...), one entry per list and round, and the chunk
\* texts of the result are the texts of the visited entries in the order
\* of their first visit: a new text is appended at the end, a text seen
\* before takes its list's turn without adding or moving anything, and
\* each entry of the result is a visited occurrence of its text.  A step
\* of the merge leaves every admitted text at its position.
C18_RoundRobinOrder ==
    /\ [](LET n == Cardinality(visited)
              done == SubSeq(VisitOrder, 1, n)
          IN  /\ n <= Len(VisitOrder)
              /\ visited = { done[i] : i \in 1..n }
              /\ [i \in 1..Len(finalResults) |-> finalResults[i].chunk_text]
                    = FirstOccurrences(
                         [i \in 1..n |-> allResults[done[i][1]][done[i][2]].chunk_text])
              /\ \A i \in 1..Len(finalResults) :
                    \E p \in visited : finalResults[i] = allResults[p[1]][p[2]])
    /\ [][(qPc = "merge") =>
             /\ Len(finalResults') >= Len(finalResults)
             /\ \A i \in 1..Len(finalResults) :
                   finalResults'[i].chunk_text = finalResults[i].chunk_text]_vars

\* Both lists hold the same two texts in opposite order; the second round
\* visited two texts seen before, and the first entry of the result was
\* replaced in place by its higher-scored occurrence at rank 2 of list 2.
C18_Witness ==
    /\ qOut = "ok" /\ Len(allResults) = 2
    /\ Len(finalResults) = 2 /\ Cardinality(visited) = 4
    /\ finalResults[1] = allResults[2][2]
    /\ finalResults[1] # allResults[1][1]
    /\ finalResults[2].chunk_text = allResults[2][1].chunk_text

\* ------------------------------------------------------------------- C19
\* Every entry of the per-query lists, as <<list, rank>>.
AllEntries ==
    { p \in (1..Len(allResults)) \X (1..MaxTopK + 1) : p[2] <= Len(allResults[p[1]]) }

\* The distinct chunk texts over all per-query lists.
DistinctTexts == { allResults[p[1]][p[2]].chunk_text : p \in AllEntries }

\* C19: no per-query list of similarity_search is longer than top_k, and
\* when the search returns, the merged result has exactly min(top_k, D)
\* entries, D being the number of distinct chunk texts over all per-query
\* lists; the merge has then collected top_k results or visited every
\* entry of every list.
C19_MergedSize ==
    /\ \A l \in 1..Len(allResults) : Len(allResults[l]) <= topK
    /\ (qOut = "ok") =>
          /\ Len(finalResults) = Min(topK, Cardinality(DistinctTexts))
          /\ (Len(finalResults) = topK \/ visited = AllEntries)

\* Two lists of two entries with three distinct texts and top_k = 2: the
\* merge returned after the first round with two entries.
C19_Witness ==
    /\ qOut = "ok" /\ topK = 2 /\ Cardinality(DistinctTexts) = 3
    /\ Len(finalResults) = 2 /\ Cardinality(visited) = 2
    /\ Cardinality(AllEntries) = 4

\* ------------------------------------------------------------------- C20
\* Positions of the log of one generate_embeddings call, by kind of event.
CallsAt == { i \in 1..Len(gLog) : IsCall(gLog[i]) }
OksAt == { i \in 1..Len(gLog) : gLog[i].e = "call_ok" }
PausesAt == { i \in 1..Len(gLog) : gLog[i] = SleepEvent(100) }

\* ceil(n / 10)
BatchCount(n) == (n + 9) \div 10

\* C20: generate_embeddings submits batches of at most 10 chunks one after
\* another: the batch in hand starts at 10 times the number of batches
\* that have succeeded, and the vectors collected are those of the batches
\* before it.  When a batch has failed 3 times the call ends with
\* EmbeddingGenerationError, the log of remote calls ends with that
\* failure, and nothing is returned, whatever was collected.  A call makes
\* at most 3 * ceil(n / 10) remote calls for n chunks.  A pause of 100 ms
\* follows every successful remote call except the one of the last batch,
\* and follows nothing else.  Once the call has ended, no event is added.
C20_SequentialBatches ==
    /\ [](LET n == Len(gChunks)
          IN  /\ Cardinality(CallsAt) <= 3 * BatchCount(n)
              /\ (gPc = "attempt") =>
                    /\ gBatchStart = 10 * Cardinality(OksAt)
                    /\ gBatchStart < n
              /\ (gPc = "extend") =>
                    gBatchStart = 10 * (Cardinality(OksAt) - 1)
              /\ (gPc \in {"attempt", "extend"}) =>
                    /\ Len(Batch(gChunks, gBatchStart)) \in 1..10
                    /\ Len(gEmbeddings) = gBatchStart
              /\ \A i \in PausesAt : i > 1 /\ gLog[i - 1].e = "call_ok"
              /\ \A i \in OksAt :
                    IF i < Len(gLog)
                    THEN gLog[i + 1] = SleepEvent(100)
                    ELSE gPc = "extend" \/ (gPc = "done" /\ gOut = "ok")
              /\ (gOut = "ok") =>
                    /\ Cardinality(OksAt) = BatchCount(n)
                    /\ Cardinality(PausesAt) = BatchCount(n) - 1
                    /\ gLog[Len(gLog)].e = "call_ok"
              /\ (gOut = "EmbeddingGenerationError") =>
                    /\ gPc = "done" /\ gRet = <<>>
                    /\ (gLog # <<>>) =>
                          /\ gLog[Len(gLog)] = CallEvent(FALSE)
                          /\ Cardinality(OksAt) < BatchCount(n)
                          /\ Len(gEmbeddings) = 10 * Cardinality(OksAt))
    /\ [][(gPc = "done") => (gLog' = gLog \/ gLog' = <<>>)]_vars

\* Of three batches the first succeeded and the second failed three times:
\* the third was never submitted and the 10 vectors obtained were not
\* returned.
C20_Witness ==
    /\ gOut = "EmbeddingGenerationError" /\ Len(gChunks) = 25
    /\ Cardinality(OksAt) = 1 /\ Cardinality(CallsAt) = 4
    /\ Len(gEmbeddings) = 10 /\ gRet = <<>>

\* ------------------------------------------------------------------- C21
\* The sum of the squares of the components of a vector.
SumSquares(a) == SumSeq([i \in 1..Len(a) |-> a[i] * a[i]])

\* C21: in every state each record of the store carries the Euclidean norm
\* of its own vector (a non-negative number whose square is the sum of the
\* squares of the components), and a step changes no record that is in the
\* store before and after it: records are only inserted or deleted.
C21_NormMatchesVector ==
    /\ [](\A i \in 1..Len(store) :
             /\ store[i].embedding_norm >= 0
             /\ store[i].embedding_norm * store[i].embedding_norm
                   = SumSquares(store[i].embedding))
    /\ [][\A i \in 1..Len(store), j \in 1..Len(store') :
             (store[i].id = store'[j].id) => store[i] = store'[j]]_vars

\* A file was indexed again while the store held a record of another file
\* with vector (4, 3): that record still has norm 5.
C21_Witness ==
    /\ pc = "done" /\ result /\ last.file = file
    /\ \E i \in 1..Len(store) :
          /\ store[i].filename # file
          /\ store[i].embedding = <<4, 3>>
          /\ store[i].embedding_norm = 5

\* ------------------------------------------------------------------- C22
\* C22: when process_document(s) has returned False, the records of s are
\* those the store held when it was called if the delete step failed, and
\* there is none if the delete step succeeded and a later step failed; in
\* the second case the records s had before the call are gone and no
\* record of the failed run is in the store.
C22_FailureLeavesOldOrNone ==
    (pc = "done" /\ ~result) =>
        /\ stepOk # <<>> /\ steps[1] = "delete"
        /\ IF stepOk[1]
           THEN /\ RowsOf(store, file) = <<>>
                /\ Len(stepOk) >= 2 /\ ~stepOk[Len(stepOk)]
           ELSE /\ RowsOf(store, file) = RowsOf(pre, file)
                /\ Len(stepOk) = 1

\* An indexed file was indexed again: the delete step succeeded, the store
\* step failed, and the file has no record left.
C22_Witness ==
    /\ pc = "done" /\ ~result
    /\ stepOk[1] /\ steps[Len(steps)] = "store"
    /\ RowsOf(pre, file) # <<>> /\ RowsOf(store, file) = <<>>

\* ------------------------------------------------------------------- C23
\* The collaborators of a finished run all worked: no database fault, and
\* neither the extraction nor the embedding raised.
CollaboratorsWorked ==
    /\ ~faulted
    /\ \A i \in 1..Len(stepOk) : (steps[i] \in {"load", "embed"}) => stepOk[i]

\* C23: process_document of a valid document, called on a database whose
\* documents table has not been created yet, returns True when the
\* extraction, the embedding service and the database all work.
C23_FreshDatabaseIndexes ==
    (pc = "done" /\ ~preTable /\ SupportedPath(file) /\ CollaboratorsWorked)
        => result

\* Once the documents table exists, process_document of a valid document
\* returns True when its collaborators work.
IndexesOnExistingTable ==
    (pc = "done" /\ preTable /\ SupportedPath(file) /\ CollaboratorsWorked)
        => result

\* ------------------------------------------------------------------- C24
\* The rows one SELECT of the search read for f1.
SeenOf(l) == RowsOf(qSeen[l], "f1")

\* Rows that are one complete generation of f1: every row one successful
\* indexing of some document text wrote, and no other row.
IsGeneration(rows) ==
    /\ rows # <<>>
    /\ \E t \in DocTexts : rows = IndexedRows("f1", t, rows[1].id)

\* C24 as claimed: a similarity_search that runs while f1 is re-indexed
\* works on one complete generation of f1 only: no SELECT of it reads a
\* proper part of a generation, and no two SELECTs of it read different
\* generations, so its result never holds records of both.
C24_SearchSeesOneGeneration ==
    (qOut = "ok") =>
        /\ \A l \in 1..Len(qSeen) : SeenOf(l) = <<>> \/ IsGeneration(SeenOf(l))
        /\ \A l, m \in 1..Len(qSeen) :
              (SeenOf(l) # <<>> /\ SeenOf(m) # <<>>) => SeenOf(l) = SeenOf(m)

\* C24 as amended: every SELECT of a similarity_search that runs while f1
\* is re-indexed reads, for f1, one complete generation or no row at all
\* (between the commit of the delete and the commit of the insert), never
\* a proper part of a generation and never rows of two generations; the
\* SELECTs of one search are not tied to the same generation.
C24_SelectSeesOneGeneration ==
    /\ \A l \in 1..Len(qSeen) : SeenOf(l) = <<>> \/ IsGeneration(SeenOf(l))
    /\ \A l \in 1..Len(allResults) : \A i \in 1..Len(allResults[l]) :
          \E m \in 1..Len(qSeen) :
             \E j \in 1..Len(qSeen[m]) :
                /\ allResults[l][i].chunk_text = qSeen[m][j].chunk_text
                /\ allResults[l][i].filename = qSeen[m][j].filename

\* A search with two query vectors ran while f1 was re-indexed: its first
\* SELECT read the old generation, its second one the new generation, and
\* the result holds a chunk only the old one has and a chunk only the new
\* one has.
C24_Witness ==
    /\ qOut = "ok" /\ Len(qSeen) = 2
    /\ SeenOf(1) = OldGeneration
    /\ IsGeneration(SeenOf(2)) /\ SeenOf(2) # OldGeneration
    /\ \E i, j \in 1..Len(finalResults) :
          /\ finalResults[i].chunk_text = <<"a">>
          /\ finalResults[j].chunk_text = <<"c">>
====
